---- MODULE Spec2Model ----
(***************************************************************************)
(* A model of dayz-tool-cli's mod synchronisation core:                    *)
(*   - the ThreadPool of src/lib.rs (execute, wait, Drop, Worker::new),    *)
(*   - the checksum build and comparison of src/utils/mods.rs              *)
(*     (calculate_mod_checksums, is_ignored_file, compare_mod_versions).   *)
(*   - the copy of a mod (copy_large_file, copy_dir),                      *)
(*   - the economy data (extract_xml_data, analyze_types_folder,           *)
(*     save_extracted_data, update_cfgeconomy, remove_ce_entries),         *)
(*   - Mod::short_name of src/lib.rs and install_mods of                   *)
(*     src/commands/mods.rs.                                               *)
(***************************************************************************)
EXTENDS Integers, Sequences, FiniteSets, TLC

(***************************************************************************)
(* Bounds of the model.                                                    *)
(***************************************************************************)
\* ThreadPool::new(size): the number of worker threads.
NumWorkers == 2
\* The number of closures ever passed to ThreadPool::execute in one run.
MaxTasks == 3

Workers == 1..NumWorkers
Tasks == 1..MaxTasks

\* The closure `|| {}` that Drop sends to every worker (no counter attached).
NoopJob == 0

\* The two threads that use the pool: the thread that owns it and a second
\* thread that shares the `&ThreadPool` (THREAD_POOL is a global static).
Threads == {"main", "aux"}

VARIABLES
    \* ---- ThreadPool ----
    queue,        \* the mpsc channel: jobs sent and not yet received
    job_count,    \* ThreadPool.job_count (AtomicUsize)
    senderAlive,  \* the ThreadPool.sender field has not been dropped
    wstate,       \* per worker: "recv" | "running" | "counting" | "exited" | "panicked"
    wjob,         \* per worker: the job it received last
    tstate,       \* per task: "new" | "counted" | "queued" | "running" | "done" | "failed"
    tbody,        \* per task: the closure it wraps
    pc,           \* per thread: its position in execute / wait / drop
    cur,          \* per thread: the task it is sending (inside execute)
    dropIdx,      \* Drop: sends done so far, then the worker being joined
    lateSubmits,  \* history: tasks counted while main's wait() was pending
    \* ---- calculate_mod_checksums ----
    tree,         \* the directory tree under mod_path
    files,        \* the `files` vector: the entries enumerated by WalkDir
    fileIdx,      \* the position of the `for entry in files` loop
    checksums,    \* checksums_mutex: the shared Vec<ModChecksum>
    errorSlot,    \* error_mutex: the shared Option<io::Error>
    firstError,   \* history: the first error a task stored in error_mutex
    buildPc,      \* "idle" | "submit" | "wait" | "returned"
    buildResult,  \* the Result calculate_mod_checksums returned
    \* ---- pure functions ----
    fnIn,         \* the input drawn for the function under check
    fnOut,        \* its result
    fnPc          \* "input" | "done"

poolVars == <<queue, job_count, senderAlive, wstate, wjob, tstate, tbody, pc, cur,
              dropIdx, lateSubmits>>
buildVars == <<tree, files, fileIdx, checksums, errorSlot, firstError, buildPc,
               buildResult>>
fnVars == <<fnIn, fnOut, fnPc>>
vars == <<poolVars, buildVars, fnVars>>

None == [kind |-> "none"]
PlainBody == [kind |-> "plain"]

(***************************************************************************)
(* ThreadPool (src/lib.rs)                                                 *)
(***************************************************************************)

\* The receiver lives in an Arc held by the worker threads only (the local of
\* ThreadPool::new is gone): it exists as long as one worker thread does.
ReceiverAlive == \E w \in Workers : wstate[w] \notin {"exited", "panicked"}

Dropping == pc["main"] \in {"drop_signal", "drop_join", "drop_done", "drop_panicked"}

CanCall(th) == pc[th] \in {"ready", "returned"}

NextTask == Cardinality({t \in Tasks : tstate[t] # "new"}) + 1

\* wait(): `while self.job_count.load(SeqCst) > 0`
WaitCondLoose(c) == c > 1
WaitCond(c) == c > 0

PoolInit ==
    /\ queue = <<>>
    /\ job_count = 0
    /\ senderAlive = TRUE
    /\ wstate = [w \in Workers |-> "recv"]
    /\ wjob = [w \in Workers |-> NoopJob]
    /\ tstate = [t \in Tasks |-> "new"]
    /\ tbody = [t \in Tasks |-> PlainBody]
    /\ pc = [th \in Threads |-> "ready"]
    /\ cur = [th \in Threads |-> NoopJob]
    /\ dropIdx = 0
    /\ lateSubmits = {}

\* execute, first half: job_count.fetch_add(1) and the wrapping of the task.
ExecuteCount(th, body) ==
    /\ CanCall(th)
    /\ ~Dropping
    /\ NextTask <= MaxTasks
    /\ job_count' = job_count + 1
    /\ tstate' = [tstate EXCEPT ![NextTask] = "counted"]
    /\ tbody' = [tbody EXCEPT ![NextTask] = body]
    /\ cur' = [cur EXCEPT ![th] = NextTask]
    /\ pc' = [pc EXCEPT ![th] = "sending"]
    /\ lateSubmits' = IF pc["main"] = "waiting" THEN lateSubmits \cup {NextTask}
                      ELSE lateSubmits
    /\ UNCHANGED <<queue, senderAlive, wstate, wjob, dropIdx>>

\* execute, second half: self.sender.send(task).unwrap(). The send fails, and
\* the unwrap panics, when the receiver is gone.
ExecuteSend(th) ==
    /\ pc[th] = "sending"
    /\ IF ReceiverAlive
         THEN /\ queue' = Append(queue, cur[th])
              /\ tstate' = [tstate EXCEPT ![cur[th]] = "queued"]
              /\ pc' = [pc EXCEPT ![th] = "ready"]
         ELSE /\ pc' = [pc EXCEPT ![th] = "panicked"]
              /\ UNCHANGED <<queue, tstate>>
    /\ UNCHANGED <<job_count, senderAlive, wstate, wjob, tbody, cur, dropIdx, lateSubmits>>

\* wait(), entered.
WaitCall ==
    /\ CanCall("main")
    /\ pc' = [pc EXCEPT !["main"] = "waiting"]
    /\ UNCHANGED <<queue, job_count, senderAlive, wstate, wjob, tstate, tbody, cur,
                   dropIdx, lateSubmits>>

\* wait(), one iteration: load the counter; sleep 10 ms and loop, or return.
WaitPoll ==
    /\ pc["main"] = "waiting"
    /\ pc' = IF WaitCond(job_count) THEN pc ELSE [pc EXCEPT !["main"] = "returned"]
    /\ UNCHANGED <<queue, job_count, senderAlive, wstate, wjob, tstate, tbody, cur,
                   dropIdx, lateSubmits>>

\* Worker loop: `receiver.lock().unwrap().recv()` returns Ok(task).
WorkerRecv(w) ==
    /\ wstate[w] = "recv"
    /\ queue # <<>>
    /\ wjob' = [wjob EXCEPT ![w] = Head(queue)]
    /\ queue' = Tail(queue)
    /\ wstate' = [wstate EXCEPT ![w] = "running"]
    /\ tstate' = IF Head(queue) = NoopJob THEN tstate
                 ELSE [tstate EXCEPT ![Head(queue)] = "running"]
    /\ UNCHANGED <<job_count, senderAlive, tbody, pc, cur, dropIdx, lateSubmits>>

\* Worker loop: recv() returns Err (channel empty and the sender dropped): break.
WorkerExit(w) ==
    /\ wstate[w] = "recv"
    /\ queue = <<>>
    /\ ~senderAlive
    /\ wstate' = [wstate EXCEPT ![w] = "exited"]
    /\ UNCHANGED <<queue, job_count, senderAlive, wjob, tstate, tbody, pc, cur, dropIdx,
                   lateSubmits>>

\* The job runs to its end: Drop's `|| {}` goes straight back to recv; a
\* wrapped task has `task()` returned and `job_count.fetch_sub` still to do.
TaskReturn(w) ==
    /\ wstate[w] = "running"
    /\ IF wjob[w] = NoopJob
         THEN /\ wstate' = [wstate EXCEPT ![w] = "recv"]
              /\ UNCHANGED tstate
         ELSE /\ tbody[wjob[w]] = PlainBody
              /\ wstate' = [wstate EXCEPT ![w] = "counting"]
              /\ tstate' = [tstate EXCEPT ![wjob[w]] = "done"]
    /\ UNCHANGED <<queue, job_count, senderAlive, wjob, tbody, pc, cur, dropIdx, lateSubmits>>

\* `task()` panics (e.g. `copy_dir(..).unwrap()` in install_mods): the wrapper
\* unwinds before fetch_sub, and so does the worker's loop: nothing catches the
\* unwind, the worker thread ends.
TaskPanic(w) ==
    /\ wstate[w] = "running"
    /\ wjob[w] # NoopJob
    /\ tbody[wjob[w]] = PlainBody
    /\ wstate' = [wstate EXCEPT ![w] = "panicked"]
    /\ tstate' = [tstate EXCEPT ![wjob[w]] = "failed"]
    /\ UNCHANGED <<queue, job_count, senderAlive, wjob, tbody, pc, cur, dropIdx, lateSubmits>>

\* The wrapper's last statement: job_count.fetch_sub(1).
WorkerDec(w) ==
    /\ wstate[w] = "counting"
    /\ job_count' = job_count - 1
    /\ wstate' = [wstate EXCEPT ![w] = "recv"]
    /\ UNCHANGED <<queue, senderAlive, wjob, tstate, tbody, pc, cur, dropIdx, lateSubmits>>

\* Drop begins: the owner gives the pool up, nobody else uses it any more.
DropBegin ==
    /\ CanCall("main")
    /\ pc["aux"] # "sending"
    /\ pc' = [pc EXCEPT !["main"] = "drop_signal"]
    /\ dropIdx' = 0
    /\ UNCHANGED <<queue, job_count, senderAlive, wstate, wjob, tstate, tbody, cur,
                   lateSubmits>>

\* Drop, first loop: one `self.sender.send(Box::new(|| {})).unwrap()` per worker.
\* A panic in drop unwinds through the fields: the sender is dropped.
DropSignal ==
    /\ pc["main"] = "drop_signal"
    /\ IF ReceiverAlive
         THEN /\ queue' = Append(queue, NoopJob)
              /\ IF dropIdx + 1 = NumWorkers
                   THEN /\ pc' = [pc EXCEPT !["main"] = "drop_join"]
                        /\ dropIdx' = 1
                   ELSE /\ dropIdx' = dropIdx + 1
                        /\ UNCHANGED pc
              /\ UNCHANGED senderAlive
         ELSE /\ pc' = [pc EXCEPT !["main"] = "drop_panicked"]
              /\ senderAlive' = FALSE
              /\ UNCHANGED <<queue, dropIdx>>
    /\ UNCHANGED <<job_count, wstate, wjob, tstate, tbody, cur, lateSubmits>>

\* Drop, second loop: `thread.join().unwrap()` blocks until the worker's thread
\* has ended; it panics when that thread panicked. When drop returns (or
\* unwinds) the fields, and with them the sender, are dropped.
DropJoin ==
    /\ pc["main"] = "drop_join"
    /\ wstate[dropIdx] \in {"exited", "panicked"}
    /\ IF wstate[dropIdx] = "panicked"
         THEN /\ pc' = [pc EXCEPT !["main"] = "drop_panicked"]
              /\ senderAlive' = FALSE
              /\ UNCHANGED dropIdx
         ELSE IF dropIdx = NumWorkers
                THEN /\ pc' = [pc EXCEPT !["main"] = "drop_done"]
                     /\ senderAlive' = FALSE
                     /\ UNCHANGED dropIdx
                ELSE /\ dropIdx' = dropIdx + 1
                     /\ UNCHANGED <<pc, senderAlive>>
    /\ UNCHANGED <<queue, job_count, wstate, wjob, tstate, tbody, cur, lateSubmits>>

IdleBuild ==
    /\ tree = {}
    /\ files = <<>>
    /\ fileIdx = 0
    /\ checksums = <<>>
    /\ errorSlot = None
    /\ firstError = None
    /\ buildPc = "idle"
    /\ buildResult = None

IdleFn ==
    /\ fnIn = None
    /\ fnOut = None
    /\ fnPc = "idle"

(***************************************************************************)
(* Directory trees and the checksum index (src/utils/mods.rs)              *)
(***************************************************************************)
\* File names are sequences of characters, so that starts_with('.') and the
\* comparison with a literal are computed on the characters.
DesktopIni == <<"d", "e", "s", "k", "t", "o", "p", ".", "i", "n", "i">>
ThumbsDb == <<"t", "h", "u", "m", "b", "s", ".", "d", "b">>

\* is_ignored_file: s.starts_with('.') || s == "desktop.ini" || s == "thumbs.db"
is_ignored_file(name) ==
    \/ (Len(name) > 0 /\ name[1] = ".")
    \/ name = DesktopIni
    \/ name = ThumbsDb

\* A tree is the set of the entries below mod_path, each
\* [path, kind, size, data]: path is the sequence of names below the root,
\* data stands for the bytes of a file.
FileName(e) == e.path[Len(e.path)]

\* WalkDir::new(mod_path).min_depth(1).into_iter().filter_entry(|e| !is_ignored_file(e)):
\* an entry is yielded when neither it nor a directory above it (below the
\* root) is ignored; an ignored directory is not descended into.
Walked(t) == {e \in t : \A i \in 1..Len(e.path) : ~is_ignored_file(e.path[i])}

\* ... .filter(|e| e.file_type().is_file()).collect()
WalkFiles(t) == {e \in Walked(t) : e.kind = "file"}

\* All the orders in which a finite set can be laid out as a vector.
Orders(S) == {q \in [1..Cardinality(S) -> S] : \A e \in S : \E i \in DOMAIN q : q[i] = e}

\* `if size > 1024 * 1024`
SmallFileLimit == 1048576
IsLargeFileInclusive(size) == size >= SmallFileLimit
IsLargeFile(size) == size > SmallFileLimit

\* calculate_file_hash: the SHA-256 digest of the file's bytes (taken as
\* collision free: one digest per content).
calculate_file_hash(e) == <<"sha256", e.size, e.data>>
SmallFileMarker == <<"small_file">>

\* The ModChecksum a task pushes for one file: its path relative to mod_path
\* (strip_prefix), its size and its identity.
ModChecksumByFileName(e) ==
    [path |-> <<e.path[Len(e.path)]>>,
     size |-> e.size,
     hash |-> IF e.size > SmallFileLimit THEN calculate_file_hash(e) ELSE SmallFileMarker]
ModChecksumOf(e) ==
    [path |-> e.path,
     size |-> e.size,
     hash |-> IF IsLargeFile(e.size) THEN calculate_file_hash(e) ELSE SmallFileMarker]

\* The io::Error a task meets on a file (metadata() or the hash's open/read).
IoErrorOf(e) == [kind |-> "io_error", path |-> e.path]

ChecksumBody(e) == [kind |-> "checksum", entry |-> e]

Ok(v) == [kind |-> "ok", value |-> v]
Err(x) == [kind |-> "err", error |-> x]

\* The end of calculate_mod_checksums: `if let Some(e) = &*error_guard { return Err(..) }`,
\* else Ok(checksums_guard.clone()).
BuildOutcomeIgnoringErrors(slot, sums) == Ok(sums)
BuildOutcome(slot, sums) == IF slot # None THEN Err(slot) ELSE Ok(sums)

\* calculate_mod_checksums, up to the loop: the two shared cells and `files`.
BuildStart ==
    /\ buildPc = "idle"
    /\ files' \in Orders(WalkFiles(tree))
    /\ fileIdx' = 1
    /\ checksums' = <<>>
    /\ errorSlot' = None
    /\ buildPc' = "submit"
    /\ UNCHANGED <<tree, firstError, buildResult>>
    /\ UNCHANGED poolVars

\* `for entry in files { pool.execute(move || { .. }) }`: one iteration.
BuildSubmit ==
    /\ buildPc = "submit"
    /\ fileIdx <= Len(files)
    /\ ExecuteCount("main", ChecksumBody(files[fileIdx]))
    /\ fileIdx' = fileIdx + 1
    /\ UNCHANGED <<tree, files, checksums, errorSlot, firstError, buildPc, buildResult>>

\* `pool.wait()` is called when the loop is over.
BuildWait ==
    /\ buildPc = "submit"
    /\ fileIdx > Len(files)
    /\ WaitCall
    /\ buildPc' = "wait"
    /\ UNCHANGED <<tree, files, fileIdx, checksums, errorSlot, firstError, buildResult>>

\* After wait(): read the error slot, then the checksums, and return.
BuildReturn ==
    /\ buildPc = "wait"
    /\ pc["main"] = "returned"
    /\ buildResult' = BuildOutcome(errorSlot, checksums)
    /\ buildPc' = "returned"
    /\ UNCHANGED <<tree, files, fileIdx, checksums, errorSlot, firstError>>
    /\ UNCHANGED poolVars

\* The task's closure succeeds: metadata, hash, strip_prefix, then the push
\* under the checksums lock.
ChecksumTaskOk(w) ==
    /\ wstate[w] = "running"
    /\ wjob[w] # NoopJob
    /\ tbody[wjob[w]].kind = "checksum"
    /\ checksums' = Append(checksums, ModChecksumOf(tbody[wjob[w]].entry))
    /\ wstate' = [wstate EXCEPT ![w] = "counting"]
    /\ tstate' = [tstate EXCEPT ![wjob[w]] = "done"]
    /\ UNCHANGED <<tree, files, fileIdx, errorSlot, firstError, buildPc, buildResult>>
    /\ UNCHANGED <<queue, job_count, senderAlive, wjob, tbody, pc, cur, dropIdx, lateSubmits>>

\* `*error_guard = Some(e)`: what the slot holds after a task stored e in it.
StoreErrorKeepFirst(slot, e) == IF slot = None THEN e ELSE slot
StoreError(slot, e) == e

\* The task's closure meets an I/O error: `if let Err(e) = result`, the error
\* is stored under the error lock; the task itself returns normally.
ChecksumTaskErr(w) ==
    /\ wstate[w] = "running"
    /\ wjob[w] # NoopJob
    /\ tbody[wjob[w]].kind = "checksum"
    /\ errorSlot' = StoreError(errorSlot, IoErrorOf(tbody[wjob[w]].entry))
    /\ firstError' = IF firstError = None THEN IoErrorOf(tbody[wjob[w]].entry)
                     ELSE firstError
    /\ wstate' = [wstate EXCEPT ![w] = "counting"]
    /\ tstate' = [tstate EXCEPT ![wjob[w]] = "done"]
    /\ UNCHANGED <<tree, files, fileIdx, checksums, buildPc, buildResult>>
    /\ UNCHANGED <<queue, job_count, senderAlive, wjob, tbody, pc, cur, dropIdx, lateSubmits>>

(***************************************************************************)
(* PoolSpec: two threads use one pool; its owner finally drops it.         *)
(***************************************************************************)
PoolSpecInit == PoolInit /\ IdleBuild /\ IdleFn

PoolNext ==
    \/ \E th \in Threads : ExecuteCount(th, PlainBody) /\ UNCHANGED <<buildVars, fnVars>>
    \/ \E th \in Threads : ExecuteSend(th) /\ UNCHANGED <<buildVars, fnVars>>
    \/ WaitCall /\ UNCHANGED <<buildVars, fnVars>>
    \/ WaitPoll /\ UNCHANGED <<buildVars, fnVars>>
    \/ \E w \in Workers : WorkerRecv(w) /\ UNCHANGED <<buildVars, fnVars>>
    \/ \E w \in Workers : WorkerExit(w) /\ UNCHANGED <<buildVars, fnVars>>
    \/ \E w \in Workers : TaskReturn(w) /\ UNCHANGED <<buildVars, fnVars>>
    \/ \E w \in Workers : TaskPanic(w) /\ UNCHANGED <<buildVars, fnVars>>
    \/ \E w \in Workers : WorkerDec(w) /\ UNCHANGED <<buildVars, fnVars>>
    \/ DropBegin /\ UNCHANGED <<buildVars, fnVars>>
    \/ DropSignal /\ UNCHANGED <<buildVars, fnVars>>
    \/ DropJoin /\ UNCHANGED <<buildVars, fnVars>>

PoolSpec == PoolSpecInit /\ [][PoolNext]_vars

(***************************************************************************)
(* BuildSpec: one call of calculate_mod_checksums on the pool, over every  *)
(* tree of BuildTrees, any task of which may meet an I/O error.            *)
(***************************************************************************)
N_a == <<"a">>
N_c == <<"c">>
N_sub == <<"s", "u", "b">>
N_git == <<".", "g", "i", "t">>
N_Thumbs == <<"T", "h", "u", "m", "b", "s", ".", "d", "b">>

FileEntry(p, size, data) == [path |-> p, kind |-> "file", size |-> size, data |-> data]
DirEntry(p) == [path |-> p, kind |-> "dir", size |-> 0, data |-> "dir"]

BuildUniverse ==
    { FileEntry(<<N_a>>, 10, "x"),
      FileEntry(<<N_Thumbs>>, 10, "x"),
      DirEntry(<<N_git>>),
      FileEntry(<<N_git, N_c>>, 10, "x"),
      DirEntry(<<N_sub>>),
      FileEntry(<<N_sub, N_a>>, SmallFileLimit + 1, "y"),
      FileEntry(<<N_sub, DesktopIni>>, 10, "x") }

\* Every entry below the root lies in a directory of the tree.
ParentClosed(t) ==
    \A e \in t : Len(e.path) > 1 =>
        \E d \in t : d.kind = "dir" /\ d.path = SubSeq(e.path, 1, Len(e.path) - 1)

BuildTrees ==
    {t \in SUBSET BuildUniverse : ParentClosed(t) /\ Cardinality(WalkFiles(t)) <= MaxTasks}

BuildSpecInit ==
    /\ PoolInit
    /\ IdleFn
    /\ tree \in BuildTrees
    /\ files = <<>>
    /\ fileIdx = 0
    /\ checksums = <<>>
    /\ errorSlot = None
    /\ firstError = None
    /\ buildPc = "idle"
    /\ buildResult = None

BuildNext ==
    \/ BuildStart /\ UNCHANGED fnVars
    \/ BuildSubmit /\ UNCHANGED fnVars
    \/ ExecuteSend("main") /\ UNCHANGED <<buildVars, fnVars>>
    \/ BuildWait /\ UNCHANGED fnVars
    \/ WaitPoll /\ UNCHANGED <<buildVars, fnVars>>
    \/ BuildReturn /\ UNCHANGED fnVars
    \/ \E w \in Workers : WorkerRecv(w) /\ UNCHANGED <<buildVars, fnVars>>
    \/ \E w \in Workers : ChecksumTaskOk(w) /\ UNCHANGED fnVars
    \/ \E w \in Workers : ChecksumTaskErr(w) /\ UNCHANGED fnVars
    \/ \E w \in Workers : WorkerDec(w) /\ UNCHANGED <<buildVars, fnVars>>

BuildSpec == BuildSpecInit /\ [][BuildNext]_vars

(***************************************************************************)
(* compare_mod_versions (src/utils/mods.rs)                                *)
(***************************************************************************)
\* The comparison proper of compare_mod_versions, on the two Vec<ModChecksum>:
\* the length test, the HashMap of the workdir records (a later record of a
\* path replaces an earlier one), and the loop over the workshop records.
workdir_map(wd) ==
    [p \in {wd[i].path : i \in DOMAIN wd} |->
        LET last == CHOOSE i \in DOMAIN wd :
                        /\ wd[i].path = p
                        /\ \A j \in DOMAIN wd : wd[j].path = p => j <= i
        IN  <<wd[last].size, wd[last].hash>>]

CompareChecksumsSizeOnly(ws, wd) ==
    IF Len(ws) # Len(wd) THEN FALSE
    ELSE \A i \in DOMAIN ws :
            /\ ws[i].path \in DOMAIN workdir_map(wd)
            /\ workdir_map(wd)[ws[i].path][1] = ws[i].size

CompareChecksums(ws, wd) ==
    IF Len(ws) # Len(wd) THEN FALSE
    ELSE \A i \in DOMAIN ws :
            /\ ws[i].path \in DOMAIN workdir_map(wd)
            /\ ~(\/ workdir_map(wd)[ws[i].path][1] # ws[i].size
                 \/ workdir_map(wd)[ws[i].path][2] # ws[i].hash)

\* What one call of calculate_mod_checksums can return for a tree: the records
\* of its enumerated files in any order, or the I/O error of one of them.
BuildResults(t) ==
    {Ok(q) : q \in Orders({ModChecksumOf(e) : e \in WalkFiles(t)})}
        \cup {Err(IoErrorOf(e)) : e \in WalkFiles(t)}

\* compare_mod_versions: the two builds (`?` passes an error on), then the
\* comparison.
compare_mod_versions(ra, rb) ==
    IF ra.kind = "err" THEN ra
    ELSE IF rb.kind = "err" THEN rb
    ELSE Ok(CompareChecksums(ra.value, rb.value))

\* The trees compared: flat folders of up to two files, each small, exactly
\* at the 1 MiB limit, or above it, with one of two contents.
CmpSizes == {10, SmallFileLimit, SmallFileLimit + 1}
CmpData == {"x", "y"}
CmpFiles(n) == {FileEntry(<<n>>, sz, d) : sz \in CmpSizes, d \in CmpData}
CmpTrees == {fa \cup fc : fa \in {{}} \cup {{e} : e \in CmpFiles(N_a)},
                          fc \in {{}} \cup {{e} : e \in CmpFiles(N_c)}}

CompareSpecInit ==
    /\ PoolInit
    /\ IdleBuild
    /\ fnIn \in [workshop : CmpTrees, workdir : CmpTrees]
    /\ fnOut = None
    /\ fnPc = "input"

CompareVersions ==
    /\ fnPc = "input"
    /\ \E ra \in BuildResults(fnIn.workshop), rb \in BuildResults(fnIn.workdir) :
          fnOut' = [workshop |-> ra, workdir |-> rb, result |-> compare_mod_versions(ra, rb)]
    /\ fnPc' = "done"
    /\ UNCHANGED <<fnIn, poolVars, buildVars>>

CompareNext == CompareVersions

CompareSpec == CompareSpecInit /\ [][CompareNext]_vars

(***************************************************************************)
(* Claims about the ThreadPool, checked under PoolSpec.                    *)
(***************************************************************************)
Counted == {t \in Tasks : tstate[t] # "new"}
Ended == {t \in Tasks : tstate[t] \in {"done", "failed"}}
LiveWorkers == {w \in Workers : wstate[w] \notin {"panicked", "exited"}}

\* C1: whenever wait() returns, the counter it loaded is zero and every task
\* whose execute() had incremented the counter by then has finished running,
\* the tasks submitted while the wait was pending included.
C1_WaitReturnsWhenAllFinished ==
    [][(pc["main"] = "waiting" /\ pc'["main"] = "returned")
          => (job_count = 0 /\ Counted \subseteq Ended)]_vars

\* C1 witness: wait() has returned after a task that was submitted while it
\* was pending ran to its end.
C1_Witness ==
    /\ pc["main"] = "returned"
    /\ job_count = 0
    /\ lateSubmits # {}
    /\ \A t \in lateSubmits : tstate[t] = "done"

\* C2 (the claim as stated): once a task has failed, all NumWorkers workers
\* are still alive (until the pool is torn down).
C2_WorkersSurviveTaskFailure ==
    ((\E t \in Tasks : tstate[t] = "failed") /\ ~Dropping)
        => Cardinality(LiveWorkers) = NumWorkers

\* C3 (the claim as stated): once every submitted task has ended, normally or
\* by failing, and no worker is still inside a task wrapper, the outstanding
\* counter is back at zero, so that a pending wait() returns at its next poll.
C3_CounterReturnsToZero ==
    (/\ Counted \subseteq Ended
     /\ \A w \in Workers : wstate[w] # "counting")
        => job_count = 0

\* C4 (the claim as stated): a teardown in which no worker has panicked is
\* never stuck: until drop has returned, some thread can take a step.
C4_TeardownNeverStuck ==
    (/\ pc["main"] \in {"drop_signal", "drop_join"}
     /\ \A w \in Workers : wstate[w] # "panicked")
        => ENABLED PoolNext

(***************************************************************************)
(* Claims about the checksum build, checked under BuildSpec.               *)
(***************************************************************************)
BuildOk == buildPc = "returned" /\ buildResult.kind = "ok"
BuildErr == buildPc = "returned" /\ buildResult.kind = "err"
IndexPaths == {buildResult.value[i].path : i \in DOMAIN buildResult.value}
FileSet == {files[i] : i \in DOMAIN files}

\* C7: a successful build returns exactly one record per enumerated file,
\* keyed by the file's path relative to the root: none lost, none twice, none
\* missing because its task had not run.
C7_OneRecordPerFile ==
    BuildOk =>
        /\ Len(buildResult.value) = Cardinality(FileSet)
        /\ IndexPaths = {e.path : e \in FileSet}
        /\ \A e \in FileSet :
              Cardinality({i \in DOMAIN buildResult.value :
                              buildResult.value[i].path = e.path}) = 1

\* C7 witness: a successful build of a tree with files in two directories,
\* whose records were pushed in another order than the tasks were submitted.
C7_Witness ==
    /\ BuildOk
    /\ Len(files) >= 3
    /\ \E i \in DOMAIN files : buildResult.value[i].path # files[i].path

\* Lower-casing of the letters the model's names use in upper case.
LowerChar(c) == IF c = "T" THEN "t" ELSE IF c = "D" THEN "d" ELSE c
LowerName(n) == [i \in DOMAIN n |-> LowerChar(n[i])]
\* The files the claim excludes: own name begins with '.', or is, ignoring
\* case, desktop.ini or thumbs.db.
ClaimExcluded(e) ==
    \/ FileName(e)[1] = "."
    \/ LowerName(FileName(e)) \in {DesktopIni, ThumbsDb}

\* C8 (the claim as stated): a successful build records exactly the regular
\* files under the root that the claim does not exclude.
C8_RecordsAllButExcluded ==
    BuildOk => IndexPaths = {e.path : e \in {f \in tree : f.kind = "file" /\ ~ClaimExcluded(f)}}

\* C9 (the claim as stated): the error a build returns is the first one that
\* was stored in the error slot.
C9_FirstErrorWins ==
    BuildErr => buildResult.error = firstError

\* C10: the build returns only after every task it submitted has completed,
\* and with an error when any task stored one.
C10_ReturnsAfterAllTasksAndSurfacesError ==
    buildPc = "returned" =>
        /\ Cardinality(Counted) = Len(files)
        /\ \A t \in Counted : tstate[t] = "done"
        /\ \A w \in Workers : wstate[w] = "recv"
        /\ (firstError # None => buildResult.kind = "err")
        /\ (firstError = None => buildResult = Ok(checksums))

\* C10 witness: a build in which one task stored an error and another pushed
\* its record has returned an error.
C10_Witness ==
    /\ BuildErr
    /\ Len(checksums) >= 1
    /\ Len(files) >= 2

(***************************************************************************)
(* Claims about compare_mod_versions, checked under CompareSpec.           *)
(***************************************************************************)
Compared == fnPc = "done" /\ fnOut.result.kind = "ok"
RecordsOf(r) == {r.value[i] : i \in DOMAIN r.value}

\* The two indexes differ, in the claim's words: in file count, or a path of
\* A is absent from B, or a shared path differs in size or identity.
IndexesDiffer(A, B) ==
    \/ Cardinality(A) # Cardinality(B)
    \/ \E a \in A : \A b \in B : b.path # a.path
    \/ \E a \in A, b \in B : a.path = b.path /\ (a.size # b.size \/ a.hash # b.hash)

DifferOnlyInSmallContent(A, B) ==
    \E e \in A, f \in B :
        /\ e.path = f.path
        /\ e.size = f.size
        /\ e.size <= SmallFileLimit
        /\ e.data # f.data
        /\ A \ {e} = B \ {f}

\* The record of e in a build result has the identity the claim gives e.
IdentityAsClaimed(r, e) ==
    \A x \in RecordsOf(r) : x.path = e.path =>
        /\ (e.size <= SmallFileLimit => x.hash = SmallFileMarker)
        /\ (e.size > SmallFileLimit => x.hash = calculate_file_hash(e))

\* C6: a file of at most 1 MiB (exactly 1 MiB included) gets the constant
\* small-file identity and a larger one its content hash; two trees that
\* differ only in the content of one such small file compare as the same (no
\* update needed).
C6_SmallFilesCompareBySize ==
    Compared =>
        /\ \A e \in fnIn.workshop : IdentityAsClaimed(fnOut.workshop, e)
        /\ \A e \in fnIn.workdir : IdentityAsClaimed(fnOut.workdir, e)
        /\ DifferOnlyInSmallContent(fnIn.workshop, fnIn.workdir)
              => fnOut.result.value = TRUE

\* C6 witness: two trees that differ only in the content of a file of exactly
\* 1 MiB, beside a large file, have been compared and found the same.
C6_Witness ==
    /\ Compared
    /\ fnOut.result.value = TRUE
    /\ \E e \in fnIn.workshop, f \in fnIn.workdir :
          /\ e.path = f.path
          /\ e.size = SmallFileLimit
          /\ f.size = SmallFileLimit
          /\ e.data # f.data
    /\ \E e \in fnIn.workshop : e.size > SmallFileLimit

(***************************************************************************)
(* copy_large_file (src/utils/mods.rs)                                     *)
(* CopyLargeSpec: one chunked copy of a source of up to MaxFileLen bytes   *)
(* with a buffer of up to MaxChunk bytes; any system call may fail.        *)
(***************************************************************************)
\* The longest source file, in bytes.
MaxFileLen == 3
\* The largest chunk_size, in bytes.
MaxChunk == 2

ByteSeqs == UNION {[1..n -> {0, 1}] : n \in 0..MaxFileLen}

Min(a, b) == IF a < b THEN a ELSE b

\* The target path before the copy: absent, or a file left by an earlier copy.
TargetsBefore == {[exists |-> FALSE, bytes |-> <<>>], [exists |-> TRUE, bytes |-> <<1, 1>>]}

CopyLargeInit ==
    /\ PoolInit
    /\ IdleBuild
    /\ fnIn \in [source : ByteSeqs, chunk_size : 1..MaxChunk, before : TargetsBefore]
    /\ fnOut = [target |-> fnIn.before, pos |-> 0, readFailed |-> FALSE, result |-> None]
    /\ fnPc = "open"

\* File::open(source)?, File::create(target)?, source_file.metadata()?:
\* create truncates the target; each of the three may fail.
LargeOpen ==
    /\ fnPc = "open"
    /\ \E fault \in {"none", "open", "create", "metadata"} :
          fnOut' = [fnOut EXCEPT
                      !.target = IF fault \in {"open", "create"} THEN @
                                 ELSE [exists |-> TRUE, bytes |-> <<>>],
                      !.result = IF fault = "none" THEN None ELSE Err(fault)]
    /\ fnPc' = IF fnOut'.result = None THEN "loop" ELSE "done"
    /\ UNCHANGED <<fnIn, poolVars, buildVars>>

\* One turn of `while let Ok(bytes_read) = source_file.read(&mut buffer)`:
\* a read error ends the loop like the end of the file does; a read of k > 0
\* bytes (at most the buffer, at most what is left) is followed by
\* write_all(&buffer[..k])?, which may fail after writing a part of them.
LargeChunk ==
    /\ fnPc = "loop"
    /\ \/ /\ fnOut' = [fnOut EXCEPT !.readFailed = TRUE]
          /\ fnPc' = "flush"
       \/ /\ fnOut.pos = Len(fnIn.source)
          /\ fnOut' = fnOut
          /\ fnPc' = "flush"
       \/ \E k \in 1..Min(fnIn.chunk_size, Len(fnIn.source) - fnOut.pos) :
             \/ /\ fnOut' = [fnOut EXCEPT
                               !.target.bytes = @ \o SubSeq(fnIn.source, fnOut.pos + 1,
                                                            fnOut.pos + k),
                               !.pos = @ + k]
                /\ fnPc' = "loop"
             \/ \E written \in 0..(k - 1) :
                   /\ fnOut' = [fnOut EXCEPT
                                  !.target.bytes = @ \o SubSeq(fnIn.source, fnOut.pos + 1,
                                                               fnOut.pos + written),
                                  !.result = Err("write")]
                   /\ fnPc' = "done"
    /\ UNCHANGED <<fnIn, poolVars, buildVars>>

\* target_file.flush()? (a no-op on a File, it returns Ok) and Ok(()).
LargeFlush ==
    /\ fnPc = "flush"
    /\ fnOut' = [fnOut EXCEPT !.result = Ok("unit")]
    /\ fnPc' = "done"
    /\ UNCHANGED <<fnIn, poolVars, buildVars>>

CopyLargeNext == LargeOpen \/ LargeChunk \/ LargeFlush

CopyLargeSpec == CopyLargeInit /\ [][CopyLargeNext]_vars

\* C11 (the claim as stated): when copy_large_file returns Ok, the target is
\* exactly as long as the source and holds the same bytes.
C11_ChunkedCopyIsIdentical ==
    (fnPc = "done" /\ fnOut.result.kind = "ok")
        => (Len(fnOut.target.bytes) = Len(fnIn.source) /\ fnOut.target.bytes = fnIn.source)

(***************************************************************************)
(* copy_dir (src/utils/mods.rs)                                            *)
(* CopyDirSpec: one recursive copy of a source tree into a target that may *)
(* be absent or already hold entries; any system call may fail.  Paths are *)
(* relative to source_dir and target_dir, <<>> is the directory itself.    *)
(***************************************************************************)
LARGE_FILE_THRESHOLD == 100 * 1024 * 1024
CHUNK_SIZE == 8 * 1024 * 1024

N_b == <<"b">>

CopyUniverse ==
    { FileEntry(<<N_a>>, 10, "x"),
      FileEntry(<<N_b>>, LARGE_FILE_THRESHOLD + 1, "y"),
      DirEntry(<<N_sub>>),
      FileEntry(<<N_sub, N_c>>, 10, "z") }

CopySources == {t \in SUBSET CopyUniverse : ParentClosed(t)}

\* What target_dir holds before the call: nothing at all, an empty directory,
\* a file of an earlier copy, a file where the source has a directory, a
\* directory where the source has a file.
CopyTargetsBefore ==
    { {},
      {DirEntry(<<>>)},
      {DirEntry(<<>>), FileEntry(<<N_a>>, 3, "old")},
      {DirEntry(<<>>), FileEntry(<<N_sub>>, 3, "old")},
      {DirEntry(<<>>), DirEntry(<<N_a>>)} }

\* source_dir.read_dir(): the entries directly inside a directory.
read_dir(t, dir) ==
    {e \in t : Len(e.path) = Len(dir) + 1 /\ SubSeq(e.path, 1, Len(dir)) = dir}

\* target_dir.join(source_path.strip_prefix(source_dir).unwrap())
target_path_flat(target_dir, name) == <<name>>
target_path(target_dir, name) == Append(target_dir, name)

HasKind(t, p, k) == \E e \in t : e.path = p /\ e.kind = k

\* A file written at p replaces the file that was there.
WriteFile(t, p, w) == {e \in t : e.path # p} \cup {FileEntry(p, w.size, w.data)}

Whole(x) == [size |-> x.size, data |-> x.data]
Prefix(x, n) == [size |-> n, data |-> "part"]

\* The outcomes of copy_large_file(source_path, target_path, CHUNK_SIZE) as
\* CopyLargeSpec has them: ok tells the returned Result, failed whether a
\* system call failed, written what the target file holds afterwards (None:
\* the target was not touched).  A failed chunk read returns Ok with a prefix.
CopyLargeOutcomes(x) ==
    {[ok |-> TRUE, failed |-> FALSE, written |-> Whole(x)]}
    \cup {[ok |-> TRUE, failed |-> TRUE, written |-> Prefix(x, n)] : n \in {0, CHUNK_SIZE}}
    \cup {[ok |-> FALSE, failed |-> TRUE, written |-> None]}
    \cup {[ok |-> FALSE, failed |-> TRUE, written |-> Prefix(x, n)] : n \in {0, CHUNK_SIZE}}

\* The outcomes of std::fs::copy(source_path, target_path).
CopyOutcomes(x) ==
    { [ok |-> TRUE, failed |-> FALSE, written |-> Whole(x)],
      [ok |-> FALSE, failed |-> TRUE, written |-> None],
      [ok |-> FALSE, failed |-> TRUE, written |-> Prefix(x, 0)] }

\* `if file_size > LARGE_FILE_THRESHOLD { copy_large_file(..) } else { copy(..) }`;
\* a directory at the target path makes either fail before it writes.
FileCopyOutcomes(t, p, x) ==
    {o \in (IF x.size > LARGE_FILE_THRESHOLD THEN CopyLargeOutcomes(x) ELSE CopyOutcomes(x)) :
        HasKind(t, p, "dir") => (~o.ok /\ o.written = None)}

Frame(source_dir, target_dir) ==
    [source_dir |-> source_dir, target_dir |-> target_dir, stage |-> "create", todo |-> {}]

CopyDirInit ==
    /\ PoolInit
    /\ IdleBuild
    /\ fnIn \in [source : CopySources, before : CopyTargetsBefore]
    /\ fnOut = [target |-> fnIn.before, stack |-> <<Frame(<<>>, <<>>)>>, copied |-> {},
                failure |-> {}, afterFailure |-> FALSE, result |-> None]
    /\ fnPc = "run"

Top == fnOut.stack[Len(fnOut.stack)]

\* `return Err(..)` and every `?`: the error leaves all the nested calls at once.
Abort(out, error) == [out EXCEPT !.stack = <<>>, !.result = Err(error)]

NoteFailure(out, what) == [out EXCEPT !.failure = @ \cup {what}]

NoteCopied(out, p) ==
    [out EXCEPT !.copied = @ \cup {p}, !.afterFailure = @ \/ out.failure # {}]

\* The head of copy_dir: create_dir_all(target_dir), then source_dir.read_dir().
CopyDirEnter ==
    /\ fnPc = "run"
    /\ fnOut.stack # <<>>
    /\ Top.stage = "create"
    /\ \E fault \in {"none", "create_dir_all", "read_dir"} :
          /\ HasKind(fnOut.target, Top.target_dir, "file") => fault = "create_dir_all"
          /\ fnOut' =
               IF fault = "create_dir_all"
               THEN Abort(NoteFailure(fnOut, fault), "CreateDirError")
               ELSE LET made == NoteCopied([fnOut EXCEPT !.target = @ \cup {DirEntry(Top.target_dir)}],
                                           Top.target_dir)
                    IN IF fault = "read_dir"
                       THEN Abort(NoteFailure(made, fault), "CopyFileError")
                       ELSE [made EXCEPT !.stack[Len(fnOut.stack)] =
                                [Top EXCEPT !.stage = "iter",
                                            !.todo = read_dir(fnIn.source, Top.source_dir)]]
    /\ fnPc' = IF fnOut'.result = None THEN "run" ELSE "done"
    /\ UNCHANGED <<fnIn, poolVars, buildVars>>

\* One turn of the loop over the directory's entries, in the order read_dir
\* yields them: a directory is entered by the recursive call, a file is copied.
CopyDirEntry ==
    /\ fnPc = "run"
    /\ fnOut.stack # <<>>
    /\ Top.stage = "iter"
    /\ \E x \in Top.todo :
          LET rest == [fnOut EXCEPT !.stack[Len(fnOut.stack)].todo = @ \ {x}]
              tp == target_path(Top.target_dir, FileName(x))
          IN \/ \E fault \in {"entry", "file_type"} :
                   fnOut' = Abort(NoteFailure(fnOut, fault), "CopyFileError")
             \/ /\ x.kind = "dir"
                /\ fnOut' = [rest EXCEPT !.stack = Append(@, Frame(x.path, tp))]
             \/ /\ x.kind = "file"
                /\ \/ fnOut' = Abort(NoteFailure(fnOut, "metadata"), "CopyFileError")
                   \/ \E o \in FileCopyOutcomes(fnOut.target, tp, x) :
                         LET wrote == IF o.written = None THEN rest
                                      ELSE [rest EXCEPT !.target = WriteFile(@, tp, o.written)]
                         IN fnOut' = IF ~o.ok THEN Abort(NoteFailure(wrote, "copy"), "CopyFileError")
                                     ELSE IF o.failed THEN NoteFailure(NoteCopied(wrote, tp), "copy")
                                     ELSE NoteCopied(wrote, tp)
    /\ fnPc' = IF fnOut'.result = None THEN "run" ELSE "done"
    /\ UNCHANGED <<fnIn, poolVars, buildVars>>

\* The loop is over: Ok(()), to the calling copy_dir or to the caller.
CopyDirReturn ==
    /\ fnPc = "run"
    /\ fnOut.stack # <<>>
    /\ Top.stage = "iter"
    /\ Top.todo = {}
    /\ fnOut' = [fnOut EXCEPT !.stack = SubSeq(@, 1, Len(@) - 1),
                              !.result = IF Len(fnOut.stack) = 1 THEN Ok("unit") ELSE None]
    /\ fnPc' = IF Len(fnOut.stack) = 1 THEN "done" ELSE "run"
    /\ UNCHANGED <<fnIn, poolVars, buildVars>>

CopyDirNext == CopyDirEnter \/ CopyDirEntry \/ CopyDirReturn

CopyDirSpec == CopyDirInit /\ [][CopyDirNext]_vars

\* C12 (the claim as stated): when creating a directory, reading an entry, or
\* reading or writing a file (whole or any chunk) has failed, copy_dir returns
\* an error, has copied nothing after the failure, and everything it had
\* copied is still in the target.
C12_AnyFailureAborts ==
    (fnPc = "done" /\ fnOut.failure # {})
        => /\ fnOut.result.kind = "err"
           /\ ~fnOut.afterFailure
           /\ \A p \in fnOut.copied : \E t \in fnOut.target : t.path = p

\* C13: after copy_dir returns Ok, the target directory exists and holds, at
\* the same relative path, an entry of the same kind for every file and
\* subdirectory under the source.
C13_TargetMirrorsSource ==
    (fnPc = "done" /\ fnOut.result.kind = "ok")
        => /\ HasKind(fnOut.target, <<>>, "dir")
           /\ \A e \in fnIn.source : HasKind(fnOut.target, e.path, e.kind)

\* A successful copy of a tree with a file inside a subdirectory into a
\* target directory that did not exist.
C13_Witness ==
    /\ fnPc = "done"
    /\ fnOut.result.kind = "ok"
    /\ fnIn.before = {}
    /\ FileEntry(<<N_sub, N_c>>, 10, "z") \in fnIn.source
    /\ FileEntry(<<N_a>>, 10, "x") \in fnIn.source

(***************************************************************************)
(* extract_xml_data, extract_types, extract_events (src/utils/mods.rs)     *)
(* A string is the tuple of its characters; the content of a file is the   *)
(* tuple of the lines content.lines() yields.                              *)
(***************************************************************************)
StartsWith(s, p) == Len(s) >= Len(p) /\ SubSeq(s, 1, Len(p)) = p

EndsWith(s, p) == Len(s) >= Len(p) /\ SubSeq(s, Len(s) - Len(p) + 1, Len(s)) = p

Contains(s, p) == \E i \in 0..(Len(s) - Len(p)) : SubSeq(s, i + 1, i + Len(p)) = p

\* str::trim on a line: the white space of both ends goes.
RECURSIVE trim_start(_)
trim_start(s) == IF s # <<>> /\ s[1] \in {" ", "\t"} THEN trim_start(Tail(s)) ELSE s

RECURSIVE trim_end(_)
trim_end(s) == IF s # <<>> /\ s[Len(s)] \in {" ", "\t"} THEN trim_end(SubSeq(s, 1, Len(s) - 1)) ELSE s

trim(s) == trim_end(trim_start(s))

\* content.contains(p), for a p without a line break.
ContentContains(content, p) == \E i \in DOMAIN content : Contains(content[i], p)

\* The string literals of extract_xml_data.
XmlLit ==
    [ types_root |-> <<"<", "t", "y", "p", "e", "s", ">">>,
      spawnabletypes_root |-> <<"<", "s", "p", "a", "w", "n", "a", "b", "l", "e", "t", "y",
          "p", "e", "s", ">">>,
      events_root |-> <<"<", "e", "v", "e", "n", "t", "s", ">">>,
      xml |-> <<"<", "?", "x", "m", "l">>,
      types |-> <<"<", "t", "y", "p", "e", "s">>,
      spawnabletypes |-> <<"<", "s", "p", "a", "w", "n", "a", "b", "l", "e", "t", "y", "p",
          "e", "s">>,
      events |-> <<"<", "e", "v", "e", "n", "t", "s">>,
      types_end |-> <<"<", "/", "t", "y", "p", "e", "s">>,
      spawnabletypes_end |-> <<"<", "/", "s", "p", "a", "w", "n", "a", "b", "l", "e", "t",
          "y", "p", "e", "s">>,
      events_end |-> <<"<", "/", "e", "v", "e", "n", "t", "s">>,
      type |-> <<"<", "t", "y", "p", "e">>,
      event |-> <<"<", "e", "v", "e", "n", "t">>,
      type_end |-> <<"<", "/", "t", "y", "p", "e">>,
      event_end |-> <<"<", "/", "e", "v", "e", "n", "t">>,
      comment |-> <<"<", "!", "-", "-">>,
      declaration |-> <<"<", "?", "x", "m", "l", " ", "v", "e", "r", "s", "i", "o", "n",
          "=", "\"", "1", ".", "0", "\"", " ", "e", "n", "c", "o", "d", "i", "n", "g", "=",
          "\"", "U", "T", "F", "-", "8", "\"", " ", "s", "t", "a", "n", "d", "a", "l", "o",
          "n", "e", "=", "\"", "y", "e", "s", "\"", "?", ">">>,
      lt |-> <<"<">>,
      lt_slash |-> <<"<", "/">>,
      gt |-> <<">">> ]

\* What serde_xml_rs reads of an element: the name attribute, a tag closed in
\* itself, the fields nominal and attachments.
SerdeLit ==
    [ name_attr |-> <<" ", "n", "a", "m", "e", "=", "\"">>,
      self_closed |-> <<"/", ">">>,
      nominal |-> <<"<", "n", "o", "m", "i", "n", "a", "l", ">">>,
      nominal_end |-> <<"<", "/", "n", "o", "m", "i", "n", "a", "l", ">">>,
      attachments |-> <<"<", "a", "t", "t", "a", "c", "h", "m", "e", "n", "t", "s">> ]

\* The root tag extract_xml_data wraps a file in that holds none of
\* <types>, <spawnabletypes>, <events>.
root_tag(content) ==
    IF ContentContains(content, XmlLit.type) THEN <<"t", "y", "p", "e", "s">>
    ELSE IF ContentContains(content, XmlLit.event) THEN <<"e", "v", "e", "n", "t", "s">>
    ELSE <<"s", "p", "a", "w", "n", "a", "b", "l", "e", "t", "y", "p", "e", "s">>

\* format!("<?xml ..?>\n<{}>\n{}\n</{}>", root_tag, content, root_tag)
Wrapped(content) ==
    IF /\ ~ContentContains(content, XmlLit.types_root)
       /\ ~ContentContains(content, XmlLit.spawnabletypes_root)
       /\ ~ContentContains(content, XmlLit.events_root)
    THEN <<XmlLit.declaration, XmlLit.lt \o root_tag(content) \o XmlLit.gt>> \o content
         \o <<XmlLit.lt_slash \o root_tag(content) \o XmlLit.gt>>
    ELSE content

\* The first test of the loop: the declaration and the root tags are skipped.
IsSkippedLine(t) ==
    \/ StartsWith(t, XmlLit.xml)
    \/ StartsWith(t, XmlLit.types)
    \/ StartsWith(t, XmlLit.spawnabletypes)
    \/ StartsWith(t, XmlLit.events)
    \/ StartsWith(t, XmlLit.types_end)
    \/ StartsWith(t, XmlLit.spawnabletypes_end)
    \/ StartsWith(t, XmlLit.events_end)

ScanLineAppending(st, line) ==
    LET t == trim(line)
    IN IF IsSkippedLine(t) THEN st
       ELSE IF StartsWith(t, XmlLit.type) \/ StartsWith(t, XmlLit.event)
       THEN [st EXCEPT !.in_element_tag = TRUE, !.current_element = Append(@, t)]
       ELSE IF (StartsWith(t, XmlLit.type_end) \/ StartsWith(t, XmlLit.event_end)) /\ st.in_element_tag
       THEN [data |-> Append(st.data, Append(st.current_element, t)),
             current_element |-> Append(st.current_element, t),
             in_element_tag |-> FALSE]
       ELSE IF st.in_element_tag /\ ~StartsWith(t, XmlLit.comment)
       THEN [st EXCEPT !.current_element = Append(@, t)]
       ELSE st

\* One turn of `for line in content.lines()`: st holds data, current_element
\* (its lines, each of them ended by '\n') and in_element_tag.
ScanLine(st, line) ==
    LET t == trim(line)
    IN IF IsSkippedLine(t) THEN st
       ELSE IF StartsWith(t, XmlLit.type) \/ StartsWith(t, XmlLit.event)
       THEN [st EXCEPT !.in_element_tag = TRUE, !.current_element = <<t>>]
       ELSE IF (StartsWith(t, XmlLit.type_end) \/ StartsWith(t, XmlLit.event_end)) /\ st.in_element_tag
       THEN [data |-> Append(st.data, Append(st.current_element, t)),
             current_element |-> Append(st.current_element, t),
             in_element_tag |-> FALSE]
       ELSE IF st.in_element_tag /\ ~StartsWith(t, XmlLit.comment)
       THEN [st EXCEPT !.current_element = Append(@, t)]
       ELSE st

RECURSIVE ScanLines(_, _)
ScanLines(st, lines) ==
    IF lines = <<>> THEN st ELSE ScanLines(ScanLine(st, Head(lines)), Tail(lines))

\* extract_xml_data on a file that could be read: the elements, each the
\* tuple of its lines.
extract_xml_data(content) ==
    ScanLines([data |-> <<>>, current_element |-> <<>>, in_element_tag |-> FALSE],
              Wrapped(content)).data

\* The value of the name attribute of an opening tag.
RECURSIVE UpToQuote(_)
UpToQuote(s) == IF s = <<>> \/ s[1] = "\"" THEN <<>> ELSE <<s[1]>> \o UpToQuote(Tail(s))

NameAttr(tag) ==
    LET i == CHOOSE i \in 0..(Len(tag) - Len(SerdeLit.name_attr)) :
                 SubSeq(tag, i + 1, i + Len(SerdeLit.name_attr)) = SerdeLit.name_attr
    IN UpToQuote(SubSeq(tag, i + Len(SerdeLit.name_attr) + 1, Len(tag)))

\* A line <nominal>v</nominal> whose v is no i32.
IsBadIntField(line) ==
    /\ StartsWith(line, SerdeLit.nominal)
    /\ LET v == SubSeq(line, Len(SerdeLit.nominal) + 1, Len(line) - Len(SerdeLit.nominal_end))
       IN ~(EndsWith(line, SerdeLit.nominal_end) /\ v # <<>> /\ \A i \in DOMAIN v : v[i] \in {"0", "1", "2", "3", "4", "5", "6", "7", "8", "9"})

\* extract_types and extract_cfgspawnabletypes look for <type, extract_events for <event.
TagOf(record) == IF record = "Event" THEN <<"e", "v", "e", "n", "t">> ELSE <<"t", "y", "p", "e">>

\* serde_xml_rs::from_str::<Type>, ::<SpawnableType>, ::<Event> on one
\* element, as far as the lines of ExtractLines go: the name attribute is
\* required, and so is the Vec field attachments of a SpawnableType; the root
\* element has to be closed by its own tag (or in its opening tag); the
\* Option<i32> field nominal has to hold an integer.
from_str(record, xml_string) ==
    LET first == xml_string[1]
        last == xml_string[Len(xml_string)]
        parsed == [record |-> record, name |-> NameAttr(first)]
    IN IF ~Contains(first, SerdeLit.name_attr) THEN Err("missing field name")
       ELSE IF /\ record = "SpawnableType"
               /\ ~\E i \in DOMAIN xml_string : StartsWith(xml_string[i], SerdeLit.attachments)
       THEN Err("missing field attachments")
       ELSE IF EndsWith(first, SerdeLit.self_closed) THEN Ok(parsed)
       ELSE IF last # XmlLit.lt_slash \o TagOf(record) \o XmlLit.gt THEN Err("unexpected closing tag")
       ELSE IF \E i \in DOMAIN xml_string : IsBadIntField(xml_string[i])
       THEN Err("invalid digit found in string")
       ELSE Ok(parsed)

\* The elements of xml_strings the loop of an extractor looks at:
\* `if xml_string.starts_with("<type")`, or "<event".
Mine(record, xml_strings) ==
    SelectSeq(xml_strings, LAMBDA x : StartsWith(x[1], XmlLit.lt \o TagOf(record)))

\* The loop of extract_types / extract_cfgspawnabletypes / extract_events:
\* the elements are parsed in order, the first that fails to parse makes the
\* function return its error.
ParseAllSkipping(record, xml_strings) ==
    LET good == SelectSeq(Mine(record, xml_strings), LAMBDA x : from_str(record, x).kind = "ok")
    IN Ok([i \in DOMAIN good |-> from_str(record, good[i]).value])
ParseAll(record, xml_strings) ==
    LET mine == Mine(record, xml_strings)
        bad == {i \in DOMAIN mine : from_str(record, mine[i]).kind = "err"}
    IN IF bad # {}
       THEN Err(from_str(record, mine[CHOOSE i \in bad : \A j \in bad : i <= j]).error)
       ELSE Ok([i \in DOMAIN mine |-> from_str(record, mine[i]).value])

extract_types(content) == ParseAll("Type", extract_xml_data(content))
extract_cfgspawnabletypes(content) == ParseAll("SpawnableType", extract_xml_data(content))
extract_events(content) == ParseAll("Event", extract_xml_data(content))

(***************************************************************************)
(* analyze_types_folder (src/utils/mods.rs)                                *)
(* The folder is the sequence of its files in the order read_dir yields    *)
(* them.  ExtractSpec: a folder of one file with any content of up to      *)
(* MaxLines lines; AnalyzeSpec: a folder of up to MaxFiles files.          *)
(***************************************************************************)
\* The longest file, in lines.
MaxLines == 4
\* The most files in a types folder.
MaxFiles == 2

\* The lines a data file is made of.
ExtractLine ==
    [ type_self |-> <<" ", "<", "t", "y", "p", "e", " ", "n", "a", "m", "e", "=", "\"",
          "a", "\"", "/", ">">>,
      type_open |-> <<"<", "t", "y", "p", "e", " ", "n", "a", "m", "e", "=", "\"", "b",
          "\"", ">">>,
      nominal_bad |-> <<" ", " ", "<", "n", "o", "m", "i", "n", "a", "l", ">", "x", "<",
          "/", "n", "o", "m", "i", "n", "a", "l", ">">>,
      type_close |-> <<"<", "/", "t", "y", "p", "e", ">">>,
      types_root |-> <<"<", "t", "y", "p", "e", "s", ">">>,
      event_open |-> <<"<", "e", "v", "e", "n", "t", " ", "n", "a", "m", "e", "=", "\"",
          "e", "\"", ">">>,
      event_close |-> <<"<", "/", "e", "v", "e", "n", "t", ">">>,
      comment |-> <<" ", "<", "!", "-", "-", " ", "c", " ", "-", "-", ">">> ]

\* Every content of up to n lines.
Contents(n) ==
    UNION {[1..k -> {ExtractLine[f] : f \in DOMAIN ExtractLine}] : k \in 0..n}

\* The names of the files of a types folder: Types.xml, cfgspawnabletypes.xml,
\* events.xml, readme.txt, b_types.xml.
TypesFileName ==
    [ types |-> <<"T", "y", "p", "e", "s", ".", "x", "m", "l">>,
      spawnabletypes |-> <<"c", "f", "g", "s", "p", "a", "w", "n", "a", "b", "l", "e", "t",
          "y", "p", "e", "s", ".", "x", "m", "l">>,
      events |-> <<"e", "v", "e", "n", "t", "s", ".", "x", "m", "l">>,
      readme |-> <<"r", "e", "a", "d", "m", "e", ".", "t", "x", "t">>,
      types_b |-> <<"b", "_", "t", "y", "p", "e", "s", ".", "x", "m", "l">> ]

\* The branch of analyze_types_folder a file takes, by its lowercased name.
ExtractorFor(name) ==
    LET file_name == LowerName(name)
    IN IF /\ Contains(file_name, <<"t", "y", "p", "e", "s">>)
          /\ ~Contains(file_name, <<"s", "p", "a", "w", "n", "a", "b", "l", "e">>)
       THEN "Type"
       ELSE IF Contains(file_name, <<"s", "p", "a", "w", "n", "a", "b", "l", "e", "t", "y", "p", "e", "s">>)
       THEN "SpawnableType"
       ELSE IF Contains(file_name, <<"e", "v", "e", "n", "t", "s">>) THEN "Event"
       ELSE "none"

AnalyzeStart ==
    /\ PoolInit
    /\ IdleBuild
    /\ fnOut = [idx |-> 1, types |-> <<>>, spawnable_types |-> <<>>, events |-> <<>>,
                failed |-> {}, result |-> None]
    /\ fnPc = "run"

ExtractSpecInit ==
    /\ AnalyzeStart
    /\ fnIn \in [files : {<<[name |-> n, content |-> c]>> :
                             n \in {TypesFileName.types, TypesFileName.events}, c \in Contents(MaxLines)}]

\* One turn of `for entry in read_dir(folder_path)?`: `entry?`, then the
\* extractor the file name selects; File::open or read_to_string in
\* extract_xml_data may fail; the extractor's `?` returns its error from
\* analyze_types_folder, else the extractor's vector replaces the list.
AnalyzeEntry ==
    /\ fnPc = "run"
    /\ fnOut.idx <= Len(fnIn.files)
    /\ LET f == fnIn.files[fnOut.idx]
           record == ExtractorFor(f.name)
       IN \E fault \in {"none", "entry", "read"} :
             LET r == IF fault = "entry" THEN Err("entry")
                      ELSE IF record = "none" THEN Ok(<<>>)
                      ELSE IF fault = "read" THEN Err("read")
                      ELSE ParseAll(record, extract_xml_data(f.content))
             IN fnOut' =
                  IF r.kind = "err"
                  THEN [fnOut EXCEPT !.failed = @ \cup {fnOut.idx}, !.result = Err(r.error)]
                  ELSE [fnOut EXCEPT
                          !.idx = @ + 1,
                          !.types = IF record = "Type" THEN r.value ELSE @,
                          !.spawnable_types = IF record = "SpawnableType" THEN r.value ELSE @,
                          !.events = IF record = "Event" THEN r.value ELSE @]
    /\ fnPc' = IF fnOut'.result = None THEN "run" ELSE "done"
    /\ UNCHANGED <<fnIn, poolVars, buildVars>>

\* Ok((Some(types), Some(spawnable_types), Some(events)))
AnalyzeReturn ==
    /\ fnPc = "run"
    /\ fnOut.idx > Len(fnIn.files)
    /\ fnOut' = [fnOut EXCEPT !.result = Ok(<<fnOut.types, fnOut.spawnable_types, fnOut.events>>)]
    /\ fnPc' = "done"
    /\ UNCHANGED <<fnIn, poolVars, buildVars>>

AnalyzeNext == AnalyzeEntry \/ AnalyzeReturn

ExtractSpec == ExtractSpecInit /\ [][AnalyzeNext]_vars

\* The file the single-file folder of ExtractSpec holds, the kind of record
\* its name selects, and the elements of that kind extract_xml_data yields.
TheFile == fnIn.files[1]
TheRecord == ExtractorFor(TheFile.name)
TheElements == Mine(TheRecord, extract_xml_data(TheFile.content))

\* The file could be read: the result is no I/O error.
WasRead == ~(fnOut.result.kind = "err" /\ fnOut.result.error \in {"entry", "read"})

\* The number of elements of a content that is nothing but complete type
\* elements, each closed in its opening tag or by a </type> line of its own;
\* -1 for any other content.
RECURSIVE BareTypeElements(_, _)
BareTypeElements(lines, open) ==
    IF lines = <<>> THEN (IF open THEN -1 ELSE 0)
    ELSE LET t == trim(Head(lines))
             opens == StartsWith(t, XmlLit.type \o <<" ">>) /\ Contains(t, SerdeLit.name_attr)
             closed == EndsWith(t, SerdeLit.self_closed)
             more == IF open
                     THEN IF t = XmlLit.lt_slash \o TagOf("Type") \o XmlLit.gt
                          THEN BareTypeElements(Tail(lines), FALSE)
                          ELSE -1
                     ELSE IF opens THEN BareTypeElements(Tail(lines), ~closed)
                     ELSE -1
         IN IF more < 0 THEN -1 ELSE IF open THEN more ELSE more + 1

\* C14 (the claim as stated): a readable types file that holds k >= 1 bare
\* type elements and no <types> root yields exactly k Type records, and the
\* other two lists stay empty.
C14_BareElementsAllExtracted ==
    (/\ fnPc = "done"
     /\ Len(fnIn.files) = 1
     /\ TheRecord = "Type"
     /\ WasRead
     /\ ~ContentContains(TheFile.content, XmlLit.types_root)
     /\ BareTypeElements(TheFile.content, FALSE) >= 1)
        => /\ fnOut.result.kind = "ok"
           /\ Len(fnOut.result.value[1]) = BareTypeElements(TheFile.content, FALSE)
           /\ fnOut.result.value[2] = <<>>
           /\ fnOut.result.value[3] = <<>>

\* C15: the extraction of one file is all or nothing: when an element of the
\* file fails to parse the extractor returns an error, which carries no
\* record, and when it returns records there is one for every element.
C15_NoPartialResult ==
    (fnPc = "done" /\ Len(fnIn.files) = 1 /\ TheRecord # "none" /\ WasRead)
        => /\ (\E i \in DOMAIN TheElements : from_str(TheRecord, TheElements[i]).kind = "err")
                => (fnOut.result.kind = "err" /\ DOMAIN fnOut.result = {"kind", "error"})
           /\ fnOut.result.kind = "ok"
                => \E j \in 1..3 :
                      /\ Len(fnOut.result.value[j]) = Len(TheElements)
                      /\ \A i \in DOMAIN TheElements :
                            from_str(TheRecord, TheElements[i]) = Ok(fnOut.result.value[j][i])

\* A file whose first element parses and whose second does not has been
\* extracted, and the extractor returned the parse error.
C15_Witness ==
    /\ fnPc = "done"
    /\ Len(fnIn.files) = 1
    /\ TheRecord = "Type"
    /\ WasRead
    /\ Len(TheElements) = 2
    /\ from_str("Type", TheElements[1]).kind = "ok"
    /\ from_str("Type", TheElements[2]).kind = "err"
    /\ fnOut.result.kind = "err"

(***************************************************************************)
(* AnalyzeSpec: analyze_types_folder on a folder of up to MaxFiles files   *)
(* with different names, each with one of a few contents.                  *)
(***************************************************************************)
\* No line; an element that parses as a Type; an element that does not; an
\* element that parses as an Event; an element that does not.
SampleContents ==
    { <<>>,
      <<ExtractLine.type_open, ExtractLine.type_close>>,
      <<ExtractLine.type_open, ExtractLine.nominal_bad, ExtractLine.type_close>>,
      <<ExtractLine.event_open, ExtractLine.event_close>>,
      <<ExtractLine.event_open, ExtractLine.type_close>> }

Folders ==
    LET names == {TypesFileName[f] : f \in DOMAIN TypesFileName}
    IN {fs \in UNION {[1..n -> [name : names, content : SampleContents]] : n \in 0..MaxFiles} :
           \A i, j \in DOMAIN fs : i # j => fs[i].name # fs[j].name}

AnalyzeSpecInit ==
    /\ AnalyzeStart
    /\ fnIn \in [files : Folders]

AnalyzeSpec == AnalyzeSpecInit /\ [][AnalyzeNext]_vars

\* C16 (the claim as stated): when the extraction of one file of a folder of
\* several files fails, analyze_types_folder still goes through every other
\* file of the folder and returns what they hold.
C16_FailureDoesNotAbortSiblings ==
    (/\ fnPc = "done"
     /\ Len(fnIn.files) >= 2
     /\ fnOut.failed # {}
     /\ fnOut.result.error # "entry")
        => /\ \A i \in DOMAIN fnIn.files : i \notin fnOut.failed => i < fnOut.idx
           /\ fnOut.result.kind = "ok"

(***************************************************************************)
(* save_extracted_data, update_cfgeconomy, remove_ce_entries               *)
(* (src/utils/mods.rs).  The content of cfgeconomycore.xml is the tuple of *)
(* the pieces between its line feeds, so that a content that ends with a   *)
(* line feed has an empty last piece and two contents are the same bytes   *)
(* exactly when they are the same tuple.                                   *)
(***************************************************************************)
\* str::lines(): the pieces, without the empty piece after a final line feed.
Lines(content) ==
    IF content[Len(content)] = <<>> THEN SubSeq(content, 1, Len(content) - 1)
    ELSE content

\* lines.join("\n"): no line feed follows the last line.
Join(lines) == IF lines = <<>> THEN <<<<>>>> ELSE lines

\* The string literals of update_cfgeconomy and remove_ce_entries.
CeLit ==
    [ economycore_end |-> <<"<", "/", "e", "c", "o", "n", "o", "m", "y", "c", "o", "r",
          "e", ">">>,
      ce_end |-> <<"<", "/", "c", "e", ">">>,
      comment_open |-> <<"<", "!", "-", "-", " ">>,
      comment_close |-> <<" ", "-", "-", ">">>,
      ce_open |-> <<"<", "c", "e", " ", "f", "o", "l", "d", "e", "r", "=", "\"">>,
      ce_open_end |-> <<"_", "c", "e", "\"", ">">>,
      tab |-> <<"\t">>,
      file_open |-> <<"\t", "\t", "<", "f", "i", "l", "e", " ", "n", "a", "m", "e", "=",
          "\"">>,
      types_file |-> <<"_", "t", "y", "p", "e", "s", ".", "x", "m", "l", "\"", " ", "t",
          "y", "p", "e", "=", "\"", "t", "y", "p", "e", "s", "\"", " ", "/", ">">>,
      spawnabletypes_file |-> <<"_", "c", "f", "g", "s", "p", "a", "w", "n", "a", "b", "l",
          "e", "t", "y", "p", "e", "s", ".", "x", "m", "l", "\"", " ", "t", "y", "p", "e",
          "=", "\"", "s", "p", "a", "w", "n", "a", "b", "l", "e", "t", "y", "p", "e", "s",
          "\"", " ", "/", ">">>,
      events_file |-> <<"_", "e", "v", "e", "n", "t", "s", ".", "x", "m", "l", "\"", " ",
          "t", "y", "p", "e", "=", "\"", "e", "v", "e", "n", "t", "s", "\"", " ", "/", ">">> ]

\* The block update_cfgeconomy inserts; lists tells for each of types,
\* spawnable_types and events whether the vector holds a record.
new_content_all_files(mod_short_name, lists) ==
    << CeLit.tab \o CeLit.comment_open \o mod_short_name \o CeLit.comment_close,
       CeLit.tab \o CeLit.ce_open \o mod_short_name \o CeLit.ce_open_end,
       CeLit.file_open \o mod_short_name \o CeLit.types_file,
       CeLit.file_open \o mod_short_name \o CeLit.spawnabletypes_file,
       CeLit.file_open \o mod_short_name \o CeLit.events_file,
       CeLit.tab \o CeLit.ce_end >>
new_content(mod_short_name, lists) ==
    << CeLit.tab \o CeLit.comment_open \o mod_short_name \o CeLit.comment_close,
       CeLit.tab \o CeLit.ce_open \o mod_short_name \o CeLit.ce_open_end >>
    \o (IF lists.types THEN <<CeLit.file_open \o mod_short_name \o CeLit.types_file>> ELSE <<>>)
    \o (IF lists.spawnable_types
        THEN <<CeLit.file_open \o mod_short_name \o CeLit.spawnabletypes_file>> ELSE <<>>)
    \o (IF lists.events THEN <<CeLit.file_open \o mod_short_name \o CeLit.events_file>> ELSE <<>>)
    \o << CeLit.tab \o CeLit.ce_end >>

AllEmpty(lists) == ~lists.types /\ ~lists.spawnable_types /\ ~lists.events

\* update_cfgeconomy once the file has been read: the written content, or
\* the error and the content as it was.
update_cfgeconomy(content, mod_short_name, lists) ==
    IF AllEmpty(lists) THEN [result |-> Ok("unit"), content |-> content]
    ELSE LET lines == Lines(content)
             closing == {i \in DOMAIN lines : trim(lines[i]) = CeLit.economycore_end}
         IN IF closing = {}
            THEN [result |-> Err("Could not find closing economycore tag"), content |-> content]
            ELSE LET end_idx == CHOOSE i \in closing : \A j \in closing : i <= j
                 IN [result |-> Ok("unit"),
                     content |-> Join(SubSeq(lines, 1, end_idx - 1)
                                      \o new_content(mod_short_name, lists)
                                      \o SubSeq(lines, end_idx, Len(lines)))]

RemoveLineOfAnyFolder(st, line, mod_short) ==
    IF \/ Contains(line, CeLit.comment_open \o mod_short \o CeLit.comment_close)
       \/ Contains(line, CeLit.ce_open)
    THEN [st EXCEPT !.skip_lines = TRUE]
    ELSE IF st.skip_lines /\ trim(line) = CeLit.ce_end
    THEN [st EXCEPT !.skip_lines = FALSE]
    ELSE IF ~st.skip_lines
    THEN [st EXCEPT !.new_lines = Append(@, line)]
    ELSE st

\* One turn of the loop of remove_ce_entries; st holds new_lines and skip_lines.
RemoveLine(st, line, mod_short) ==
    IF \/ Contains(line, CeLit.comment_open \o mod_short \o CeLit.comment_close)
       \/ Contains(line, CeLit.ce_open \o mod_short \o CeLit.ce_open_end)
    THEN [st EXCEPT !.skip_lines = TRUE]
    ELSE IF st.skip_lines /\ trim(line) = CeLit.ce_end
    THEN [st EXCEPT !.skip_lines = FALSE]
    ELSE IF ~st.skip_lines
    THEN [st EXCEPT !.new_lines = Append(@, line)]
    ELSE st

RECURSIVE RemoveLines(_, _, _)
RemoveLines(st, lines, mod_short) ==
    IF lines = <<>> THEN st
    ELSE RemoveLines(RemoveLine(st, Head(lines), mod_short), Tail(lines), mod_short)

\* remove_ce_entries once the file has been read: the written content.
remove_ce_entries(content, mod_short) ==
    Join(RemoveLines([new_lines |-> <<>>, skip_lines |-> FALSE], Lines(content), mod_short).new_lines)

\* save_extracted_data: the <mod_short_name>_ce folder and the files written into it.
save_extracted_data(fs, mod_short_name, lists) ==
    fs \cup {[folder |-> mod_short_name, file |-> "folder"]}
       \cup {[folder |-> mod_short_name, file |-> k] :
                k \in {k \in {"types", "spawnable_types", "events"} : lists[k]}}

(***************************************************************************)
(* RoundTripSpec: on a manifest of up to MaxManifestLines lines, with or   *)
(* without a final line feed, save_extracted_data and update_cfgeconomy    *)
(* for the mod a, then remove_ce_entries for the same mod.                 *)
(***************************************************************************)
\* The longest manifest before the operations, in lines.
MaxManifestLines == 4

\* The lines cfgeconomycore.xml is made of before the operations.
ManifestLine ==
    [ open |-> <<"<", "e", "c", "o", "n", "o", "m", "y", "c", "o", "r", "e", ">">>,
      db_open |-> <<"\t", "<", "c", "e", " ", "f", "o", "l", "d", "e", "r", "=", "\"", "d",
          "b", "\"", ">">>,
      ce_close |-> <<"\t", "<", "/", "c", "e", ">">>,
      close |-> <<"<", "/", "e", "c", "o", "n", "o", "m", "y", "c", "o", "r", "e", ">">>,
      comment_a |-> <<"\t", "<", "!", "-", "-", " ", "a", " ", "-", "-", ">">> ]

\* Every content of up to n lines: the last line ends with a line feed or not.
ManifestContents(n) ==
    LET seqs == UNION {[1..k -> {ManifestLine[f] : f \in DOMAIN ManifestLine}] : k \in 0..n}
    IN {ls \o <<<<>>>> : ls \in seqs} \cup (seqs \ {<<>>})

ModA == <<"a">>

ListChoices == [types : BOOLEAN, spawnable_types : BOOLEAN, events : BOOLEAN]

RoundTripInit ==
    /\ PoolInit
    /\ IdleBuild
    /\ fnIn \in [content : ManifestContents(MaxManifestLines)]
    /\ fnOut = [mod_short_name |-> ModA,
                lists |-> [types |-> FALSE, spawnable_types |-> FALSE, events |-> FALSE],
                fs |-> {}, content |-> fnIn.content, registered |-> fnIn.content,
                ran |-> {}, result |-> None]
    /\ fnPc = "save"

\* save_extracted_data: create_dir_all(&base_path)?, then write_to_file(..)?
\* for each vector that is not empty.
RoundTripSave ==
    /\ fnPc = "save"
    /\ \E lists \in ListChoices, fault \in {"none", "create_dir_all", "write_to_file"} :
          /\ fault = "write_to_file" => ~AllEmpty(lists)
          /\ fnOut' = [fnOut EXCEPT
                         !.lists = lists,
                         !.fs = IF fault = "create_dir_all" THEN @
                                ELSE IF fault = "write_to_file"
                                THEN @ \cup {[folder |-> fnOut.mod_short_name, file |-> "folder"]}
                                ELSE save_extracted_data(@, fnOut.mod_short_name, lists),
                         !.ran = @ \cup {"save"},
                         !.result = IF fault = "none" THEN Ok("unit") ELSE Err(fault)]
    /\ fnPc' = IF fnOut'.result.kind = "ok" THEN "update" ELSE "done"
    /\ UNCHANGED <<fnIn, poolVars, buildVars>>

\* update_cfgeconomy: with three empty vectors it returns before it touches
\* a file; get_map_name(workdir)?, read_to_string(..)? and std::fs::write(..)?
\* may fail.
RoundTripUpdate ==
    /\ fnPc = "update"
    /\ \E fault \in {"none", "get_map_name", "read_to_string", "write"} :
          /\ AllEmpty(fnOut.lists) => fault = "none"
          /\ LET r == update_cfgeconomy(fnOut.content, fnOut.mod_short_name, fnOut.lists)
                 written == fault = "none" /\ r.result.kind = "ok"
             IN fnOut' = [fnOut EXCEPT
                            !.content = IF written THEN r.content ELSE @,
                            !.registered = IF written THEN r.content ELSE @,
                            !.ran = @ \cup {"update"},
                            !.result = IF fault = "none" THEN r.result ELSE Err(fault)]
    /\ fnPc' = IF fnOut'.result.kind = "ok" THEN "remove" ELSE "done"
    /\ UNCHANGED <<fnIn, poolVars, buildVars>>

\* remove_ce_entries: NotFound when the file does not exist, ReadError,
\* WriteError, else the content without the lines of the mod.
RoundTripRemove ==
    /\ fnPc = "remove"
    /\ \E fault \in {"none", "NotFound", "ReadError", "WriteError"} :
          fnOut' = [fnOut EXCEPT
                      !.content = IF fault = "none"
                                  THEN remove_ce_entries(@, fnOut.mod_short_name) ELSE @,
                      !.ran = @ \cup {"remove"},
                      !.result = IF fault = "none" THEN Ok("unit") ELSE Err(fault)]
    /\ fnPc' = "done"
    /\ UNCHANGED <<fnIn, poolVars, buildVars>>

RoundTripNext == RoundTripSave \/ RoundTripUpdate \/ RoundTripRemove

RoundTripSpec == RoundTripInit /\ [][RoundTripNext]_vars

\* Registering has run to its end without an error.
Registered == "update" \in fnOut.ran /\ (fnPc = "remove" \/ "remove" \in fnOut.ran)

\* C17 (the claim as stated): registering with three empty lists leaves
\* cfgeconomycore.xml as it was and creates neither the <short>_ce folder nor
\* a file in it.
C17_EmptyRegisterIsNoOp ==
    (Registered /\ AllEmpty(fnOut.lists))
        => (fnOut.registered = fnIn.content /\ fnOut.fs = {})

\* The lines of the block of the mod a as the manifest format prescribes them.
ExpectedLine ==
    [ comment_a |-> <<"\t", "<", "!", "-", "-", " ", "a", " ", "-", "-", ">">>,
      ce_a |-> <<"\t", "<", "c", "e", " ", "f", "o", "l", "d", "e", "r", "=", "\"", "a",
          "_", "c", "e", "\"", ">">>,
      types_a |-> <<"\t", "\t", "<", "f", "i", "l", "e", " ", "n", "a", "m", "e", "=",
          "\"", "a", "_", "t", "y", "p", "e", "s", ".", "x", "m", "l", "\"", " ", "t", "y",
          "p", "e", "=", "\"", "t", "y", "p", "e", "s", "\"", " ", "/", ">">>,
      spawnabletypes_a |-> <<"\t", "\t", "<", "f", "i", "l", "e", " ", "n", "a", "m", "e",
          "=", "\"", "a", "_", "c", "f", "g", "s", "p", "a", "w", "n", "a", "b", "l", "e",
          "t", "y", "p", "e", "s", ".", "x", "m", "l", "\"", " ", "t", "y", "p", "e", "=",
          "\"", "s", "p", "a", "w", "n", "a", "b", "l", "e", "t", "y", "p", "e", "s", "\"",
          " ", "/", ">">>,
      events_a |-> <<"\t", "\t", "<", "f", "i", "l", "e", " ", "n", "a", "m", "e", "=",
          "\"", "a", "_", "e", "v", "e", "n", "t", "s", ".", "x", "m", "l", "\"", " ", "t",
          "y", "p", "e", "=", "\"", "e", "v", "e", "n", "t", "s", "\"", " ", "/", ">">>,
      ce_close |-> <<"\t", "<", "/", "c", "e", ">">>,
      economycore_close |-> <<"<", "/", "e", "c", "o", "n", "o", "m", "y", "c", "o", "r",
          "e", ">">> ]

\* The block the manifest format prescribes for the mod a and the lists.
ExpectedBlockA(lists) ==
    <<ExpectedLine.comment_a, ExpectedLine.ce_a>>
    \o (IF lists.types THEN <<ExpectedLine.types_a>> ELSE <<>>)
    \o (IF lists.spawnable_types THEN <<ExpectedLine.spawnabletypes_a>> ELSE <<>>)
    \o (IF lists.events THEN <<ExpectedLine.events_a>> ELSE <<>>)
    \o <<ExpectedLine.ce_close>>

\* The first line of a manifest that holds the closing root tag, 0 if none.
ClosingLine(lines) ==
    LET closing == {i \in DOMAIN lines : trim(lines[i]) = ExpectedLine.economycore_close}
    IN IF closing = {} THEN 0 ELSE CHOOSE i \in closing : \A j \in closing : i <= j

\* C18: registering the mod a with at least one non-empty list puts the
\* block of the manifest format (comment, <ce folder>, one file line per
\* non-empty list in the order types, spawnabletypes, events, </ce>) right
\* before the line with </economycore>, and the lines the manifest had stay,
\* in their order, around it.
C18_BlockInsertedBeforeClosingTag ==
    (Registered /\ ~AllEmpty(fnOut.lists))
        => LET before == Lines(fnIn.content)
               after == Lines(fnOut.registered)
               block == ExpectedBlockA(fnOut.lists)
               at == ClosingLine(before)
           IN /\ at > 0
              /\ Len(after) = Len(before) + Len(block)
              /\ SubSeq(after, 1, at - 1) = SubSeq(before, 1, at - 1)
              /\ SubSeq(after, at, at + Len(block) - 1) = block
              /\ SubSeq(after, at + Len(block), Len(after)) = SubSeq(before, at, Len(before))
              /\ trim(after[at + Len(block)]) = ExpectedLine.economycore_close

\* The mod a has been registered with types and events, and no spawnable
\* types, in a manifest with lines before and after the closing root tag.
C18_Witness ==
    /\ Registered
    /\ fnOut.lists = [types |-> TRUE, spawnable_types |-> FALSE, events |-> TRUE]
    /\ ClosingLine(Lines(fnIn.content)) = 3
    /\ Len(Lines(fnIn.content)) = 4

\* The manifest holds no line of the mod before the register.
NoLineOfModA ==
    \A i \in DOMAIN fnIn.content :
        ~Contains(fnIn.content[i], ExpectedLine.comment_a) /\ ~Contains(fnIn.content[i], ExpectedLine.ce_a)

\* C20 (the claim as stated, for a manifest without a line of the mod): when
\* the manifest has a closing root tag line, register and then unregister of
\* the same mod leave the bytes of cfgeconomycore.xml as they were.
C20_RegisterUnregisterRoundTrip ==
    (/\ fnPc = "done"
     /\ "remove" \in fnOut.ran
     /\ fnOut.result.kind = "ok"
     /\ ~AllEmpty(fnOut.lists)
     /\ NoLineOfModA
     /\ ClosingLine(Lines(fnIn.content)) > 0)
        => fnOut.content = fnIn.content

(***************************************************************************)
(* ManifestSpec: up to MaxOps calls of update_cfgeconomy and               *)
(* remove_ce_entries, for the mods a and b, on one manifest that starts    *)
(* without a block of a mod.                                               *)
(***************************************************************************)
\* The most operations on the manifest.
MaxOps == 3

ManifestMods == {ModA, <<"b">>}

\* The lists of a call: all empty, types only, or all three with records.
ManifestLists ==
    {lists \in ListChoices :
        lists.spawnable_types = lists.events /\ (lists.events => lists.types)}

\* cfgeconomycore.xml as the game ships it, cut down to one <ce> block, with
\* and without a final line feed.
FreshManifests ==
    { <<ManifestLine.open, ManifestLine.db_open, ManifestLine.ce_close, ManifestLine.close>>,
      <<ManifestLine.open, ManifestLine.db_open, ManifestLine.ce_close, ManifestLine.close, <<>>>> }

\* The manifest is on disk or not; last is the latest call: the operation, its
\* mod, whether its lists were all empty, and how many lines it took away.
ManifestInit ==
    /\ PoolInit
    /\ IdleBuild
    /\ fnIn \in [content : FreshManifests, exists : {TRUE}]
                 \cup [content : {<<<<>>>>}, exists : {FALSE}]
    /\ fnOut = [content |-> fnIn.content, exists |-> fnIn.exists, ops |-> 0,
                result |-> None,
                last |-> [op |-> "none", m |-> <<>>, all_empty |-> FALSE, removed |-> 0]]
    /\ fnPc = "rest"

path_exists_always(file) == TRUE

\* config_path.exists()
path_exists(file) == file.exists

\* One call of update_cfgeconomy.
ManifestRegister ==
    /\ fnPc = "rest"
    /\ fnOut.ops < MaxOps
    /\ \E m \in ManifestMods, lists \in ManifestLists,
          fault \in {"none", "get_map_name", "read_to_string", "write"} :
          /\ AllEmpty(lists) => fault = "none"
          /\ LET r == update_cfgeconomy(fnOut.content, m, lists)
                 failure == IF fault = "none" /\ ~AllEmpty(lists) /\ ~fnOut.exists
                            THEN "read_to_string" ELSE fault
                 written == failure = "none" /\ ~AllEmpty(lists) /\ r.result.kind = "ok"
             IN fnOut' = [fnOut EXCEPT
                            !.content = IF failure = "none" THEN r.content ELSE @,
                            !.exists = @ \/ written,
                            !.ops = @ + 1,
                            !.result = IF failure = "none" THEN r.result ELSE Err(failure),
                            !.last = [op |-> "register", m |-> m, all_empty |-> AllEmpty(lists),
                                      removed |-> 0]]
    /\ UNCHANGED <<fnIn, fnPc, poolVars, buildVars>>

\* One call of remove_ce_entries.
ManifestUnregister ==
    /\ fnPc = "rest"
    /\ fnOut.ops < MaxOps
    /\ \E m \in ManifestMods, fault \in {"none", "ReadError", "WriteError"} :
          LET failure == IF ~path_exists(fnOut) THEN "NotFound"
                         ELSE IF ~fnOut.exists THEN "ReadError"
                         ELSE fault
          IN fnOut' = [fnOut EXCEPT
                         !.content = IF failure = "none" THEN remove_ce_entries(@, m) ELSE @,
                         !.exists = @ \/ failure = "none",
                         !.ops = @ + 1,
                         !.result = IF failure = "none" THEN Ok("unit") ELSE Err(failure),
                         !.last = [op |-> "unregister", m |-> m, all_empty |-> FALSE,
                                   removed |-> IF failure = "none"
                                               THEN Len(Lines(fnOut.content))
                                                    - Len(Lines(remove_ce_entries(fnOut.content, m)))
                                               ELSE 0]]
    /\ UNCHANGED <<fnIn, fnPc, poolVars, buildVars>>

ManifestNext == ManifestRegister \/ ManifestUnregister

ManifestSpec == ManifestInit /\ [][ManifestNext]_vars

\* The lines of a manifest that open the block of a mod, and the lines that
\* open a block of any folder.
BlockOpenings(lines, m) ==
    {i \in DOMAIN lines : Contains(lines[i], CeLit.ce_open \o m \o CeLit.ce_open_end)}

AnyOpenings(lines) == {i \in DOMAIN lines : Contains(lines[i], CeLit.ce_open)}

\* C19 (the claim as stated): whatever register and unregister operations
\* have run, the manifest holds at most one block, and one identifying
\* comment, for each mod, and a block is closed before the next is opened.
C19_AtMostOneBlockPerMod ==
    LET lines == Lines(fnOut.content)
    IN /\ \A m \in ManifestMods :
             /\ Cardinality(BlockOpenings(lines, m)) <= 1
             /\ Cardinality({i \in DOMAIN lines :
                                Contains(lines[i], CeLit.comment_open \o m \o CeLit.comment_close)}) <= 1
       /\ \A i, j \in AnyOpenings(lines) :
             i < j => \E k \in (i + 1)..(j - 1) : trim(lines[k]) = CeLit.ce_end

(***************************************************************************)
(* UnregisterSpec: remove_ce_entries for the mod a, run up to twice in a   *)
(* row, on every manifest of up to MaxManifestLines lines drawn from the   *)
(* lines of a manifest, blank lines included, with or without a final line *)
(* feed.                                                                   *)
(***************************************************************************)
\* Lines of hand-edited and registered manifests besides those of ManifestLine.
BlockLine ==
    [ ce_a |->
        <<"\t", "<", "c", "e", " ", "f", "o", "l", "d", "e", "r", "=", "\"", "a", "_", "c",
          "e", "\"", ">">>,
      ce_b |->
        <<"\t", "<", "c", "e", " ", "f", "o", "l", "d", "e", "r", "=", "\"", "b", "_", "c",
          "e", "\"", ">">>,
      blank |-> <<>> ]

UnregisterLines ==
    {ManifestLine[f] : f \in {"open", "close", "ce_close", "comment_a"}}
        \cup {BlockLine[f] : f \in DOMAIN BlockLine}

UnregisterContents(n) ==
    LET seqs == UNION {[1..k -> UnregisterLines] : k \in 0..n}
    IN {ls \o <<<<>>>> : ls \in seqs} \cup (seqs \ {<<>>})

UnregisterInit ==
    /\ PoolInit
    /\ IdleBuild
    /\ fnIn \in [content : UnregisterContents(MaxManifestLines)]
    /\ fnOut = [content |-> fnIn.content, first |-> None, runs |-> 0, result |-> None]
    /\ fnPc = "unregister"

\* remove_ce_entries, the whole call: NotFound, ReadError, WriteError, or the
\* file rewritten without the lines of the mod. first keeps the content the
\* first successful run wrote.
UnregisterRun ==
    /\ fnPc = "unregister"
    /\ \E fault \in {"none", "NotFound", "ReadError", "WriteError"} :
          LET written == remove_ce_entries(fnOut.content, ModA)
          IN fnOut' = [fnOut EXCEPT
                         !.content = IF fault = "none" THEN written ELSE @,
                         !.first = IF fault = "none" /\ fnOut.runs = 0
                                   THEN Ok(written) ELSE @,
                         !.runs = IF fault = "none" THEN @ + 1 ELSE @,
                         !.result = IF fault = "none" THEN Ok("unit") ELSE Err(fault)]
    /\ fnPc' = IF fnOut'.runs = 2 \/ fnOut'.result.kind = "err" THEN "done" ELSE "unregister"
    /\ UNCHANGED <<fnIn, poolVars, buildVars>>

UnregisterNext == UnregisterRun

UnregisterSpec == UnregisterInit /\ [][UnregisterNext]_vars

\* A line that starts a block of the mod: its comment or its <ce> line.
OpensBlock(line, mod_short) ==
    \/ Contains(line, <<"<", "!", "-", "-", " ">> \o mod_short \o <<" ", "-", "-", ">">>)
    \/ Contains(line, <<"<", "c", "e", " ", "f", "o", "l", "d", "e", "r", "=", "\"">>
                        \o mod_short \o <<"_", "c", "e", "\"", ">">>)

HasNoBlock(content, mod_short) ==
    \A i \in 1..Len(content) : ~OpensBlock(content[i], mod_short)

\* C21: unregister for a mod that has no block in the manifest leaves the
\* manifest file unchanged, byte for byte, for every manifest content.
C21_UnregisterWithoutBlockKeepsFile ==
    (fnOut.runs >= 1 /\ HasNoBlock(fnIn.content, ModA))
        => fnOut.first = Ok(fnIn.content)

\* C22: unregister is idempotent: for every manifest content, running
\* unregister for the same mod twice in a row gives the same file content
\* after the second run as after the first.
C22_UnregisterIsIdempotent ==
    fnOut.runs = 2 => Ok(fnOut.content) = fnOut.first

HasClosingLine(content) ==
    \E i \in 1..Len(Lines(content)) : Contains(Lines(content)[i], CeLit.economycore_end)

\* C29: unregister never deletes past the end of the block of the mod: a
\* manifest that contained the closing </economycore> line before unregister
\* still contains it afterwards, also when the comment or the <ce> line of the
\* mod is not followed by a </ce> line.
C29_ClosingLineSurvivesUnregister ==
    (fnOut.runs >= 1 /\ HasClosingLine(fnIn.content))
        => HasClosingLine(fnOut.first.value)

\* ManifestSpec, the claims on the latest call.
\* The line i lies in a block of the mod: at or after a line that opens one,
\* with no </ce> line in between.
InBlock(lines, i, mod_short) ==
    \E t \in 1..i :
        /\ OpensBlock(lines[t], mod_short)
        /\ \A k \in (t + 1)..(i - 1) : trim(lines[k]) # CeLit.ce_end

\* The lines outside the blocks of the mod, in their order.
OutsideBlocks(lines, mod_short) ==
    LET kept == {i \in DOMAIN lines : ~InBlock(lines, i, mod_short)}
    IN [j \in 1..Cardinality(kept) |->
           lines[CHOOSE i \in kept : Cardinality({x \in kept : x <= i}) = j]]

\* C23: unregister of a mod removes only the block of that mod: every line
\* outside it, the complete blocks of the other mods included, is still
\* present afterwards, unmodified and in the original order.
C23_UnregisterRemovesOnlyOwnBlock ==
    [][(/\ fnOut'.ops = fnOut.ops + 1
        /\ fnOut'.last.op = "unregister"
        /\ fnOut'.result.kind = "ok")
          => Lines(fnOut'.content) = OutsideBlocks(Lines(fnOut.content), fnOut'.last.m)]_vars

\* An unregister of a has taken the block of a out of a manifest that also
\* holds the block of b.
C23_Witness ==
    /\ fnOut.last.op = "unregister"
    /\ fnOut.result.kind = "ok"
    /\ fnOut.last.m = ModA
    /\ fnOut.last.removed >= 3
    /\ BlockOpenings(Lines(fnOut.content), ModA) = {}
    /\ BlockOpenings(Lines(fnOut.content), <<"b">>) # {}

\* C24: when cfgeconomycore.xml does not exist, unregister returns the
\* not-found error, register with a list that is not empty returns an error,
\* and neither creates the file.
C24_MissingManifestIsAnError ==
    ~fnIn.exists =>
        /\ ~fnOut.exists
        /\ fnOut.last.op = "unregister" => fnOut.result = Err("NotFound")
        /\ (fnOut.last.op = "register" /\ ~fnOut.last.all_empty) => fnOut.result.kind = "err"

\* Both operations have been called on the missing manifest.
C24_Witness ==
    /\ ~fnIn.exists
    /\ fnOut.ops >= 2
    /\ fnOut.last.op = "unregister"
    /\ fnOut.result = Err("NotFound")

(***************************************************************************)
(* ShortNameSpec: Mod::short_name on every mod name of up to MaxNameLen    *)
(* characters.                                                             *)
(***************************************************************************)
\* The longest mod name, in characters.
MaxNameLen == 5

NameChars == {"@", "L", "o", "t", " ", "-", "_"}

\* self.name.split([' ', '-', '_']): the parts between the separators, the
\* empty ones included.
RECURSIVE split(_, _)
split(name, part) ==
    IF name = <<>> THEN <<part>>
    ELSE IF Head(name) \in {" ", "-", "_"} THEN <<part>> \o split(Tail(name), <<>>)
    ELSE split(Tail(name), Append(part, Head(name)))

\* part.chars().take(3)
take(part, n) == SubSeq(part, 1, Min(n, Len(part)))

\* .replace('@', "")
replace_at(s) == SelectSeq(s, LAMBDA c : c # "@")

RECURSIVE push_parts(_, _)
push_parts(short_name, parts) ==
    IF parts = <<>> THEN short_name
    ELSE push_parts(short_name \o replace_at(take(Head(parts), 3)), Tail(parts))

short_name(name) == push_parts(<<>>, split(name, <<>>))

ShortNameInit ==
    /\ PoolInit
    /\ IdleBuild
    /\ fnIn \in [name : UNION {[1..k -> NameChars] : k \in 0..MaxNameLen}]
    /\ fnOut = [result |-> None]
    /\ fnPc = "call"

ShortNameCall ==
    /\ fnPc = "call"
    /\ fnOut' = [result |-> Ok(short_name(fnIn.name))]
    /\ fnPc' = "done"
    /\ UNCHANGED <<fnIn, poolVars, buildVars>>

ShortNameNext == ShortNameCall

ShortNameSpec == ShortNameInit /\ [][ShortNameNext]_vars

\* A segment without its leading @.
StripLeadingAt(part) == IF part # <<>> /\ Head(part) = "@" THEN Tail(part) ELSE part

RECURSIVE FirstThreeOfEach(_)
FirstThreeOfEach(parts) ==
    IF parts = <<>> THEN <<>>
    ELSE take(StripLeadingAt(Head(parts)), 3) \o FirstThreeOfEach(Tail(parts))

\* C25: shortName is the concatenation, over the segments obtained by
\* splitting the mod name on space, - and _, of the first 3 characters of each
\* segment once a leading @ has been stripped: @Loot gives Loo.
C25_ShortNameTakesThreeAfterStripping ==
    fnPc = "done" => fnOut.result = Ok(FirstThreeOfEach(split(fnIn.name, <<>>)))

(***************************************************************************)
(* InstallSpec: install_mods (src/commands/mods.rs) for up to MaxMods      *)
(* selected mods on the ThreadPool: per mod the copy task, the key copy    *)
(* task, the economy data; then add_mods_to_profile, pool.wait() and       *)
(* parse_startup_parameter.                                                *)
(***************************************************************************)
\* The most mods selected in one run.
MaxMods == 2

\* The closure around save_extracted_data: it prints an error, it never panics.
SaveBody == [kind |-> "save"]

\* A selected mod: whether find_keys_folder finds a folder, and what
\* find_types_folder and analyze_types_folder give.
ModChoices == [keys : BOOLEAN, types : {"none", "records", "empty", "err"}]

TasksOf(m) == 1 + (IF m.keys THEN 1 ELSE 0) + (IF m.types = "records" THEN 1 ELSE 0)

RECURSIVE TasksOfAll(_)
TasksOfAll(mods) == IF mods = <<>> THEN 0 ELSE TasksOf(Head(mods)) + TasksOfAll(Tail(mods))

InstallInit ==
    /\ PoolInit
    /\ IdleBuild
    /\ fnIn \in {in \in [mods : UNION {[1..k -> ModChoices] : k \in 1..MaxMods},
                         map_name_ok : BOOLEAN] : TasksOfAll(in.mods) <= MaxTasks}
    /\ fnOut = [idx |-> 1, copy_task |-> [i \in 1..Len(fnIn.mods) |-> NoopJob],
                installed_mods |-> {}, result |-> None]
    /\ fnPc = "copy"

Panic == pc' = [pc EXCEPT !["main"] = "panicked"]

\* pool.execute of the closure with copy_dir(..).unwrap()
InstallCopy ==
    /\ fnPc = "copy"
    /\ ExecuteCount("main", PlainBody)
    /\ fnOut' = [fnOut EXCEPT !.copy_task[fnOut.idx] = NextTask]
    /\ fnPc' = "keys"
    /\ UNCHANGED <<fnIn, buildVars>>

\* if let Some(..) = find_keys_folder: pool.execute of copy_keys(..).unwrap()
InstallKeys ==
    /\ fnPc = "keys"
    /\ IF fnIn.mods[fnOut.idx].keys
         THEN ExecuteCount("main", PlainBody)
         ELSE CanCall("main") /\ UNCHANGED poolVars
    /\ fnPc' = "types"
    /\ UNCHANGED <<fnIn, fnOut, buildVars>>

\* if let Some(..) = find_types_folder: get_map_name(..).unwrap(), then
\* analyze_types_folder and, with a record in the lists, pool.execute of
\* save_extracted_data; the loop goes on with the next mod.
InstallTypes ==
    /\ fnPc = "types"
    /\ CanCall("main")
    /\ LET m == fnIn.mods[fnOut.idx]
       IN IF m.types # "none" /\ ~fnIn.map_name_ok
            THEN /\ Panic
                 /\ UNCHANGED <<queue, job_count, senderAlive, wstate, wjob, tstate, tbody,
                                cur, dropIdx, lateSubmits, fnOut, fnPc>>
            ELSE /\ IF m.types = "records"
                      THEN ExecuteCount("main", SaveBody)
                      ELSE UNCHANGED poolVars
                 /\ fnOut' = [fnOut EXCEPT !.idx = @ + 1]
                 /\ fnPc' = IF fnOut.idx = Len(fnIn.mods) THEN "add" ELSE "copy"
    /\ UNCHANGED <<fnIn, buildVars>>

\* add_mods_to_profile(mods_to_install.clone()).unwrap(): the selected mods
\* are appended to installed_mods of the active profile and config.json is
\* written, or an error comes back and the unwrap panics.
InstallAddMods ==
    /\ fnPc = "add"
    /\ CanCall("main")
    /\ \E fault \in {"none", "NoActiveProfile", "CreateFileError", "WriteFileError"} :
          IF fault = "none"
            THEN /\ fnOut' = [fnOut EXCEPT !.installed_mods = @ \cup (1..Len(fnIn.mods))]
                 /\ fnPc' = "wait"
                 /\ UNCHANGED poolVars
            ELSE /\ Panic
                 /\ UNCHANGED <<queue, job_count, senderAlive, wstate, wjob, tstate, tbody,
                                cur, dropIdx, lateSubmits, fnOut, fnPc>>
    /\ UNCHANGED <<fnIn, buildVars>>

\* pool.wait()
InstallWait ==
    /\ fnPc = "wait"
    /\ WaitCall
    /\ fnPc' = "parse"
    /\ UNCHANGED <<fnIn, fnOut, buildVars>>

\* match parse_startup_parameter()
InstallReturn ==
    /\ fnPc = "parse"
    /\ pc["main"] = "returned"
    /\ \E r \in {Ok("startup_parameter"), Err("ParseError")} :
          fnOut' = [fnOut EXCEPT !.result = r]
    /\ fnPc' = "done"
    /\ UNCHANGED <<fnIn, poolVars, buildVars>>

\* The save closure: save_extracted_data returns Ok, or Err and the closure
\* prints it; then the wrapper goes on to fetch_sub.
SaveTaskReturn(w) ==
    /\ wstate[w] = "running"
    /\ wjob[w] # NoopJob
    /\ tbody[wjob[w]] = SaveBody
    /\ wstate' = [wstate EXCEPT ![w] = "counting"]
    /\ tstate' = [tstate EXCEPT ![wjob[w]] = "done"]
    /\ UNCHANGED <<queue, job_count, senderAlive, wjob, tbody, pc, cur, dropIdx, lateSubmits,
                   fnVars, buildVars>>

InstallNext ==
    \/ InstallCopy
    \/ InstallKeys
    \/ InstallTypes
    \/ InstallAddMods
    \/ InstallWait
    \/ InstallReturn
    \/ ExecuteSend("main") /\ UNCHANGED <<buildVars, fnVars>>
    \/ WaitPoll /\ UNCHANGED <<buildVars, fnVars>>
    \/ \E w \in Workers : WorkerRecv(w) /\ UNCHANGED <<buildVars, fnVars>>
    \/ \E w \in Workers : TaskReturn(w) /\ UNCHANGED <<buildVars, fnVars>>
    \/ \E w \in Workers : TaskPanic(w) /\ UNCHANGED <<buildVars, fnVars>>
    \/ \E w \in Workers : SaveTaskReturn(w)
    \/ \E w \in Workers : WorkerDec(w) /\ UNCHANGED <<buildVars, fnVars>>

InstallSpec == InstallInit /\ [][InstallNext]_vars

\* install_mods is over: it has returned, or its thread has panicked.
InstallOver == fnPc = "done" \/ pc["main"] = "panicked"

\* C26: in a batch install of several selected mods, a failure that concerns
\* one mod (its map-name lookup, its copy, its key copy, or its economy-data
\* extraction) does not abort the batch: every remaining selected mod is still
\* processed.
C26_FailureDoesNotAbortBatch ==
    InstallOver => \A i \in 1..Len(fnIn.mods) : fnOut.copy_task[i] # NoopJob

\* C30: install_mods records a mod in the installed-mods list of the active
\* profile only after the pool tasks that copy that mod have completed
\* successfully: a mod listed as installed has its tree fully copied.
C30_InstalledMeansCopied ==
    \A i \in fnOut.installed_mods :
        /\ fnOut.copy_task[i] # NoopJob
        /\ tstate[fnOut.copy_task[i]] = "done"

\* ExtractSpec, the elements of the file as the lines of the file give them.
\* A line, trimmed, is a declaration or root line, an opening line, a closing
\* line, or a comment line.
RootLine(t) ==
    \E p \in {<<"<", "?", "x", "m", "l">>, <<"<", "t", "y", "p", "e", "s">>,
              <<"<", "e", "v", "e", "n", "t", "s">>, <<"<", "/", "t", "y", "p", "e", "s">>,
              <<"<", "/", "e", "v", "e", "n", "t", "s">>,
              <<"<", "s", "p", "a", "w", "n", "a", "b", "l", "e", "t", "y", "p", "e", "s">>,
              <<"<", "/", "s", "p", "a", "w", "n", "a", "b", "l", "e", "t", "y", "p", "e", "s">>} :
        StartsWith(t, p)

OpeningLine(t) ==
    /\ ~RootLine(t)
    /\ StartsWith(t, <<"<", "t", "y", "p", "e">>) \/ StartsWith(t, <<"<", "e", "v", "e", "n", "t">>)

ClosingLine27(t) ==
    /\ ~RootLine(t)
    /\ \/ StartsWith(t, <<"<", "/", "t", "y", "p", "e">>)
       \/ StartsWith(t, <<"<", "/", "e", "v", "e", "n", "t">>)

CommentLine(t) == StartsWith(t, <<"<", "!", "-", "-">>)

\* The closing lines that end an element, each with the opening line of it:
\* the nearest opening line before it, no closing line in between.
ElementEnds(lines) ==
    {c \in DOMAIN lines :
        /\ ClosingLine27(trim(lines[c]))
        /\ \E o \in 1..(c - 1) :
              /\ OpeningLine(trim(lines[o]))
              /\ \A k \in (o + 1)..(c - 1) : ~ClosingLine27(trim(lines[k]))}

ElementStart(lines, c) ==
    CHOOSE o \in 1..(c - 1) :
        /\ OpeningLine(trim(lines[o]))
        /\ \A k \in (o + 1)..(c - 1) : ~OpeningLine(trim(lines[k]))

\* The lines o..c, trimmed, without the comment, declaration and root lines.
ElementLines(lines, o, c) ==
    LET kept == {k \in o..c : ~RootLine(trim(lines[k])) /\ ~CommentLine(trim(lines[k]))}
    IN [j \in 1..Cardinality(kept) |->
           trim(lines[CHOOSE k \in kept : Cardinality({x \in kept : x <= k}) = j])]

ElementsByLines(lines) ==
    LET ends == ElementEnds(lines)
    IN [j \in 1..Cardinality(ends) |->
           LET c == CHOOSE c \in ends : Cardinality({x \in ends : x <= c}) = j
           IN ElementLines(lines, ElementStart(lines, c), c)]

\* C27: extract_xml_data is a single-element accumulator: each emitted element
\* consists of exactly the lines from an opening <type / <event line through
\* the next closing </type / </event line, without comment lines and without
\* root and declaration lines; a closing tag outside an element emits nothing,
\* and one element is emitted for every opening tag followed by its closing tag.
C27_SingleElementAccumulator ==
    (fnPc = "done" /\ WasRead)
        => extract_xml_data(TheFile.content) = ElementsByLines(TheFile.content)

\* A file of four lines with a comment inside its one element and a closing
\* line outside of it.
C27_Witness ==
    /\ fnPc = "done"
    /\ WasRead
    /\ Len(TheFile.content) = 4
    /\ ClosingLine27(trim(TheFile.content[1]))
    /\ CommentLine(trim(TheFile.content[3]))
    /\ Len(extract_xml_data(TheFile.content)) = 1
    /\ Len(extract_xml_data(TheFile.content)[1]) = 2

\* AnalyzeSpec, the files of one class.
\* The records the file i of the folder holds.
RecordsOfFile(i) ==
    ParseAll(ExtractorFor(fnIn.files[i].name), extract_xml_data(fnIn.files[i].content)).value

ListOfClass(record) ==
    IF record = "Type" THEN fnOut.result.value[1]
    ELSE IF record = "SpawnableType" THEN fnOut.result.value[2]
    ELSE fnOut.result.value[3]

\* C28: when a data folder holds several files of the same class, the list
\* analyze_types_folder returns for that class contains the records of all of
\* those files, whatever the enumeration order.
C28_SameClassFilesAreMerged ==
    (fnPc = "done" /\ fnOut.result.kind = "ok") =>
        \A i \in DOMAIN fnIn.files :
            ExtractorFor(fnIn.files[i].name) # "none" =>
                \A k \in DOMAIN RecordsOfFile(i) :
                    \E j \in DOMAIN ListOfClass(ExtractorFor(fnIn.files[i].name)) :
                        ListOfClass(ExtractorFor(fnIn.files[i].name))[j] = RecordsOfFile(i)[k]

====
